---- MODULE Spec2Model ----
(***************************************************************************)
(* Vitrine3D.  The point-set alignment engine: computeCentroid,            *)
(* computeOptimalRotation (Horn's quaternion method with power iteration)  *)
(* and computeRigidTransformFromPoints, as a state machine that executes   *)
(* one call step by step; the AlignmentState and the refinement loop       *)
(* around it; validateSIP, the compliance check of the metadata; and       *)
(* buildShareUrl, the parameters of a share link.  Then the viewer around  *)
(* the engine: the CrossSectionTool, the annotation controller, the retry  *)
(* loop of fetchDep / fetchText, the bootstrap of the kiosk viewer, the    *)
(* Logger and the background of the SceneManager.  Each component has its  *)
(* own specification (Spec, SpecCaller, SpecState, SpecIcp, SpecSip,       *)
(* SpecShare, SpecCs, SpecAnn, SpecFetch, SpecBoot, SpecLog, SpecBg), in   *)
(* which the other components stay idle.                                   *)
(*                                                                         *)
(* Numbers.  The code computes in IEEE doubles; the model computes the     *)
(* same expressions in exact arithmetic.  A rational is a numerator over   *)
(* a denominator; a unit quaternion is an integer direction v together     *)
(* with the square d2 of the length it was divided by (q = v / sqrt(d2));  *)
(* the one irrational the code produces, scale = sqrt(ratio), is carried   *)
(* symbolically (Num: (a + b*sigma)/d with sigma^2 = ratio).  A            *)
(* denominator 0 is the double NaN (0/0).                                  *)
(***************************************************************************)
EXTENDS Integers, Sequences, FiniteSets, TLC

----------------------------------------------------------------------------
(* Bounds of the model *)

\* longest point sequence of the freely enumerated calls
MaxPts == 3
\* largest component of the (reduced) quaternion direction the model follows;
\* a power-iteration round that would exceed it is not taken
MaxMag == 12
\* number of calls on the AlignmentState the model follows
MaxVersion == 4
\* number of calls a caller makes one after the other
MaxCalls == 3
\* largest mean correspondence distance of a refinement round, in the unit in
\* which the convergence threshold is IcpThreshold
MaxDist == 4
\* number of materials in the scene of the cross-section tool
MaxMats == 2
\* number of annotation ids
MaxAnnos == 3
\* largest number of data entries in the manifest of a kiosk archive
MaxEntries == 3
\* number of textures (background images, HDR environments) a scene loads
MaxTextures == 3

----------------------------------------------------------------------------
(* Integer helpers *)

Abs(a) == IF a < 0 THEN -a ELSE a

RECURSIVE GcdN(_, _)
GcdN(a, b) == IF b = 0 THEN a ELSE GcdN(b, a % b)

Gcd(a, b) == GcdN(Abs(a), Abs(b))

RECURSIVE SeqSum(_)
SeqSum(s) == IF s = <<>> THEN 0 ELSE Head(s) + SeqSum(Tail(s))

RECURSIVE SeqGcd(_)
SeqGcd(s) == IF s = <<>> THEN 0 ELSE Gcd(Head(s), SeqGcd(Tail(s)))

SumSq(v) == SeqSum([i \in 1..Len(v) |-> v[i] * v[i]])

MaxAbs(v) == IF v = <<>> THEN 0
             ELSE CHOOSE m \in {Abs(v[i]) : i \in 1..Len(v)} :
                    \A i \in 1..Len(v) : Abs(v[i]) <= m

\* floor(x / 10^e) for x >= 0
RECURSIVE DivPow10(_, _)
DivPow10(x, e) == IF e = 0 \/ x = 0 THEN x ELSE DivPow10(x \div 10, e - 1)

RECURSIVE ISqrtFrom(_, _)
ISqrtFrom(x, r) == IF (r + 1) * (r + 1) > x THEN r ELSE ISqrtFrom(x, r + 1)

\* floor(sqrt(x)) for x >= 0
ISqrt(x) == ISqrtFrom(x, 0)

----------------------------------------------------------------------------
(* Program constants *)

\* for (let iter = 0; iter < 50; iter++)
MaxIter == 50
\* if (len < 1e-10) break;   if (srcSpreadSq > 1e-10)
FloorExp == 10

SeedQLastW == [v |-> <<0, 0, 0, 1>>, d2 |-> 1]

\* let q = [1, 0, 0, 0]
SeedQ == [v |-> <<1, 0, 0, 0>>, d2 |-> 1]

----------------------------------------------------------------------------
(* computeCentroid *)

computeCentroidRepeatsY(points) ==
    [num |-> [i \in 1..3 |->
                SeqSum([k \in 1..Len(points) |-> points[k][IF i = 3 THEN 2 ELSE i]])],
     den |-> Len(points)]

\* cx / n, cy / n, cz / n as exact rationals num[i] / den; an empty sequence
\* gives 0 / 0, i.e. NaN in every coordinate (den = 0)
computeCentroid(points) ==
    [num |-> [i \in 1..3 |-> SeqSum([k \in 1..Len(points) |-> points[k][i]])],
     den |-> Len(points)]

----------------------------------------------------------------------------
(* computeOptimalRotation *)

\* targetPoints[i] is undefined for i >= targetPoints.length and reading t.x of
\* undefined raises a TypeError: the pairing loop throws exactly when the source
\* sequence is the longer one
PairingThrows(sourcePoints, targetPoints) == Len(sourcePoints) > Len(targetPoints)

\* numerators of the centred coordinate p[i] - c[i] over c.den
Centred(p, c) == [i \in 1..3 |-> c.den * p[i] - c.num[i]]

\* The covariance matrix h, accumulated over i < sourcePoints.length.
\* m holds numerators over den.  With no source point the loop body never runs
\* and h stays the literal zero matrix, whatever the centroids are.
CovarianceH(sourcePoints, targetPoints, sourceCentroid, targetCentroid) ==
    [m |-> [i \in 1..3 |-> [j \in 1..3 |->
              SeqSum([k \in 1..Len(sourcePoints) |->
                  Centred(sourcePoints[k], sourceCentroid)[i]
                    * Centred(targetPoints[k], targetCentroid)[j]])]],
     den |-> IF Len(sourcePoints) = 0 THEN 1
             ELSE sourceCentroid.den * targetCentroid.den]

\* Horn's 4x4 key matrix n built from h
KeyMatrix(h) ==
    LET n11 == h.m[1][1]  n12 == h.m[1][2]  n13 == h.m[1][3]
        n21 == h.m[2][1]  n22 == h.m[2][2]  n23 == h.m[2][3]
        n31 == h.m[3][1]  n32 == h.m[3][2]  n33 == h.m[3][3]
    IN [m |-> << <<n11 + n22 + n33, n23 - n32, n31 - n13, n12 - n21>>,
                 <<n23 - n32, n11 - n22 - n33, n12 + n21, n31 + n13>>,
                 <<n31 - n13, n12 + n21, -n11 + n22 - n33, n23 + n32>>,
                 <<n12 - n21, n31 + n13, n23 + n32, -n11 - n22 + n33>> >>,
        den |-> h.den]

\* numerators of newQ = n * q: newQ = NewQ(n, q) / (n.den * sqrt(q.d2))
NewQ(n, q) ==
    [i \in 1..4 |-> n.m[i][1] * q.v[1] + n.m[i][2] * q.v[2]
                      + n.m[i][3] * q.v[3] + n.m[i][4] * q.v[4]]

\* len < 1e-10, for len = sqrt(SumSq(w)) / (n.den * sqrt(q.d2)):
\*   SumSq(w) * 10^20 < n.den^2 * q.d2, i.e. SumSq(w) <= floor((n.den^2*q.d2 - 1) / 10^20)
LenBelowFloor(w, n, q) ==
    LET limit == DivPow10(n.den * n.den * q.d2 - 1, 2 * FloorExp)
    IN \/ MaxAbs(w) = 0
       \/ (MaxAbs(w) <= limit /\ SumSq(w) <= limit)

NormalizeNoLastTerm(w) ==
    LET g == SeqGcd(w)
        u == [i \in 1..4 |-> w[i] \div g]
    IN [v |-> u, d2 |-> u[1] * u[1] + u[2] * u[2] + u[3] * u[3]]

\* q = newQ / len with len = sqrt(newQ . newQ): the direction of w (its
\* common factor dropped) over the square of its own length
Normalize(w) ==
    LET g == SeqGcd(w)
        u == [i \in 1..4 |-> w[i] \div g]
    IN [v |-> u, d2 |-> SumSq(u)]

\* the quaternion-to-matrix block of rotMatrix.set(...): numerators over q.d2
\* (qw = q[0], qx = q[1], qy = q[2], qz = q[3])
QuatToRot(q) ==
    LET qw == q.v[1]  qx == q.v[2]  qy == q.v[3]  qz == q.v[4]
        one == q.d2
    IN [m |-> << <<one - 2 * qy * qy - 2 * qz * qz, 2 * qx * qy - 2 * qz * qw,
                   2 * qx * qz + 2 * qy * qw>>,
                 <<2 * qx * qy + 2 * qz * qw, one - 2 * qx * qx - 2 * qz * qz,
                   2 * qy * qz - 2 * qx * qw>>,
                 <<2 * qx * qz - 2 * qy * qw, 2 * qy * qz + 2 * qx * qw,
                   one - 2 * qx * qx - 2 * qy * qy>> >>,
        den |-> q.d2]

----------------------------------------------------------------------------
(* Numbers of the composed transform: (a + b*sigma) / d, where sigma is the   *)
(* irrational value of Math.sqrt in the call at hand and s2 = [p, q] gives    *)
(* sigma^2 = p / q.  d = 0 is NaN.  Values are kept in lowest terms with      *)
(* d > 0, so equal numbers are equal records.                                 *)

NaN == [a |-> 0, b |-> 0, d |-> 0]

NumNorm(x) ==
    IF x.d = 0 THEN NaN
    ELSE LET g == Gcd(Gcd(x.a, x.b), x.d)
             sg == IF x.d < 0 THEN -1 ELSE 1
         IN [a |-> sg * (x.a \div g), b |-> sg * (x.b \div g), d |-> sg * (x.d \div g)]

Rat(n, d) == NumNorm([a |-> n, b |-> 0, d |-> d])

Zero == Rat(0, 1)
One == Rat(1, 1)

NumAdd(x, y) ==
    NumNorm([a |-> x.a * y.d + y.a * x.d, b |-> x.b * y.d + y.b * x.d, d |-> x.d * y.d])

NumNeg(x) == [a |-> -x.a, b |-> -x.b, d |-> x.d]

NumSub(x, y) == NumAdd(x, NumNeg(y))

\* NaN * 0 = NaN, as for doubles
NumMul(x, y, s2) ==
    IF x.d = 0 \/ y.d = 0 THEN NaN
    ELSE IF x.b = 0 /\ y.b = 0 THEN NumNorm([a |-> x.a * y.a, b |-> 0, d |-> x.d * y.d])
    ELSE NumNorm([a |-> s2.q * x.a * y.a + s2.p * x.b * y.b,
                  b |-> s2.q * (x.a * y.b + x.b * y.a),
                  d |-> s2.q * x.d * y.d])

\* 1 / x for a rational x (the homogeneous divisor of applyMatrix4)
NumInv(x) == NumNorm([a |-> x.d, b |-> 0, d |-> x.a])

\* Math.sqrt(p / q) for p >= 0, q >= 0: the rational root when there is one,
\* the symbol sigma (with sigma^2 = p / q in lowest terms) otherwise.  A
\* quotient by zero is not finite (Infinity or NaN); it is carried as d = 0.
SqrtRatio(p, q) ==
    LET g == Gcd(p, q)
        pr == p \div g
        qr == q \div g
        rp == ISqrt(pr)
        rq == ISqrt(qr)
    IN IF q = 0 THEN [value |-> NaN, s2 |-> [p |-> 1, q |-> 1]]
       ELSE IF rp * rp = pr /\ rq * rq = qr
       THEN [value |-> Rat(rp, rq), s2 |-> [p |-> 1, q |-> 1]]
       ELSE [value |-> [a |-> 0, b |-> 1, d |-> 1], s2 |-> [p |-> pr, q |-> qr]]

----------------------------------------------------------------------------
(* THREE.Matrix4 / THREE.Vector3 as used by the alignment code: a matrix is   *)
(* four rows of four numbers (the argument order of Matrix4.set)              *)

Identity4 ==
    << <<One, Zero, Zero, Zero>>, <<Zero, One, Zero, Zero>>,
       <<Zero, Zero, One, Zero>>, <<Zero, Zero, Zero, One>> >>

\* rotMatrix.set(r11, r12, r13, 0, ..., 0, 0, 0, 1)
RotMatrix4(r) ==
    [i \in 1..4 |-> [j \in 1..4 |->
        IF i <= 3 /\ j <= 3 THEN Rat(r.m[i][j], r.den)
        ELSE IF i = j THEN One ELSE Zero]]

makeScale(x, y, z) ==
    << <<x, Zero, Zero, Zero>>, <<Zero, y, Zero, Zero>>,
       <<Zero, Zero, z, Zero>>, <<Zero, Zero, Zero, One>> >>

makeTranslation(x, y, z) ==
    << <<One, Zero, Zero, x>>, <<Zero, One, Zero, y>>,
       <<Zero, Zero, One, z>>, <<Zero, Zero, Zero, One>> >>

\* a.multiply(b) = a * b
Multiply(a, b, s2) ==
    [i \in 1..4 |-> [j \in 1..4 |->
        NumAdd(NumAdd(NumMul(a[i][1], b[1][j], s2), NumMul(a[i][2], b[2][j], s2)),
               NumAdd(NumMul(a[i][3], b[3][j], s2), NumMul(a[i][4], b[4][j], s2)))]]

\* v.applyMatrix4(m): the affine image divided by the homogeneous coordinate
applyMatrix4(v, m, s2) ==
    LET row(i) == NumAdd(NumAdd(NumMul(m[i][1], v[1], s2), NumMul(m[i][2], v[2], s2)),
                         NumAdd(NumMul(m[i][3], v[3], s2), m[i][4]))
        w == NumInv(row(4))
    IN [i \in 1..3 |-> NumMul(row(i), w, s2)]

multiplyScalar(v, s, s2) == [i \in 1..3 |-> NumMul(v[i], s, s2)]

\* a point with integer coordinates, and a centroid, as vectors of numbers
PointNum(p) == [i \in 1..3 |-> Rat(p[i], 1)]
CentroidNum(c) == [i \in 1..3 |-> Rat(c.num[i], c.den)]

----------------------------------------------------------------------------
(* computeRigidTransformFromPoints *)

\* srcSpreadSq / dstSpreadSq: the sum over i < srcObjs.length of the squared
\* distance of points[i] to the centroid c, num over den (0 when the loop
\* body never runs)
SpreadSq(points, c, n) ==
    [num |-> SeqSum([k \in 1..n |-> SumSq(Centred(points[k], c))]),
     den |-> IF n = 0 THEN 1 ELSE c.den * c.den]

\* srcSpreadSq > 1e-10:  num * 10^10 > den
SpreadAboveFloor(s) == s.num > DivPow10(s.den, FloorExp)

UniformScaleNoSqrt(srcSpread, dstSpread) ==
    IF SpreadAboveFloor(srcSpread)
    THEN [value |-> Rat(dstSpread.num * srcSpread.den, dstSpread.den * srcSpread.num),
          s2 |-> [p |-> 1, q |-> 1], divided |-> TRUE]
    ELSE [value |-> One, s2 |-> [p |-> 1, q |-> 1], divided |-> FALSE]

UniformScaleUnguarded(srcSpread, dstSpread) ==
    LET r == SqrtRatio(dstSpread.num * srcSpread.den, dstSpread.den * srcSpread.num)
    IN [value |-> r.value, s2 |-> r.s2, divided |-> TRUE]

\* let scale = 1; if (srcSpreadSq > 1e-10) scale = Math.sqrt(dstSpreadSq / srcSpreadSq)
\* divided records whether the quotient by the source spread was computed
UniformScale(srcSpread, dstSpread) ==
    IF SpreadAboveFloor(srcSpread)
    THEN LET r == SqrtRatio(dstSpread.num * srcSpread.den, dstSpread.den * srcSpread.num)
         IN [value |-> r.value, s2 |-> r.s2, divided |-> TRUE]
    ELSE [value |-> One, s2 |-> [p |-> 1, q |-> 1], divided |-> FALSE]

TranslationSwapped(srcCentroid, dstCentroid, rotMatrix, scale) ==
    LET rotatedSrcCentroid ==
            multiplyScalar(applyMatrix4(CentroidNum(srcCentroid), rotMatrix, scale.s2),
                           scale.value, scale.s2)
    IN [i \in 1..3 |-> NumSub(rotatedSrcCentroid[i], CentroidNum(dstCentroid)[i])]

\* translation = dstCentroid - (srcCentroid.applyMatrix4(rotMatrix) * scale)
Translation(srcCentroid, dstCentroid, rotMatrix, scale) ==
    LET rotatedSrcCentroid ==
            multiplyScalar(applyMatrix4(CentroidNum(srcCentroid), rotMatrix, scale.s2),
                           scale.value, scale.s2)
    IN [i \in 1..3 |-> NumSub(CentroidNum(dstCentroid)[i], rotatedSrcCentroid[i])]

ComposeReversed(translation, scale, rotMatrix) ==
    LET scaleMat == makeScale(scale.value, scale.value, scale.value)
        transMat == makeTranslation(translation[1], translation[2], translation[3])
    IN Multiply(Multiply(rotMatrix, scaleMat, scale.s2), transMat, scale.s2)

\* result.copy(transMat).multiply(scaleMat).multiply(rotMatrix):  M = T * S * R
Compose(translation, scale, rotMatrix) ==
    LET scaleMat == makeScale(scale.value, scale.value, scale.value)
        transMat == makeTranslation(translation[1], translation[2], translation[3])
    IN Multiply(Multiply(transMat, scaleMat, scale.s2), rotMatrix, scale.s2)

----------------------------------------------------------------------------
(* The calls the model makes *)

Basis == << <<1, 0, 0>>, <<0, 1, 0>>, <<0, 0, 1>> >>

\* source point sets of the calls whose destination is built from the source
BaseSets ==
    { Basis,
      << <<2, 0, 0>>, <<0, 2, 0>>, <<0, 0, 2>> >>,
      << <<0, 0, 0>>, <<2, 0, 0>>, <<0, 4, 0>> >>,
      << <<0, 0, 0>>, <<1, 0, 0>>, <<2, 0, 0>> >>,
      << <<1, 1, 1>>, <<1, 1, 1>>, <<1, 1, 1>> >>,
      << <<2, 0, 0>>, <<0, 2, 0>>, <<0, 0, 2>>, <<0, 0, 0>> >>,
      << <<1, 0, 0>>, <<-1, 0, 0>>, <<0, 1, 0>>, <<0, -1, 0>>, <<0, 0, 1>>, <<0, 0, -1>> >>,
      << <<1, 2, 3>> >>,
      << <<0, 0, 0>>, <<2, 4, 6>> >> }

I3 == << <<1, 0, 0>>, <<0, 1, 0>>, <<0, 0, 1>> >>

\* rotations with exact coordinates, each as an integer matrix m over c
\* (m / c is orthonormal with determinant +1)
Rotations ==
    { [name |-> "identity", m |-> I3, c |-> 1],
      [name |-> "z90",  m |-> << <<0, -1, 0>>, <<1, 0, 0>>, <<0, 0, 1>> >>, c |-> 1],
      [name |-> "y90",  m |-> << <<0, 0, 1>>, <<0, 1, 0>>, <<-1, 0, 0>> >>, c |-> 1],
      [name |-> "x90",  m |-> << <<1, 0, 0>>, <<0, 0, -1>>, <<0, 1, 0>> >>, c |-> 1],
      [name |-> "y180", m |-> << <<-1, 0, 0>>, <<0, 1, 0>>, <<0, 0, -1>> >>, c |-> 1],
      [name |-> "z180", m |-> << <<-1, 0, 0>>, <<0, -1, 0>>, <<0, 0, 1>> >>, c |-> 1],
      [name |-> "d120", m |-> << <<0, 0, 1>>, <<1, 0, 0>>, <<0, 1, 0>> >>, c |-> 1],
      [name |-> "z345", m |-> << <<3, -4, 0>>, <<4, 3, 0>>, <<0, 0, 5>> >>, c |-> 5] }

\* uniform scales k = n / d > 0
Scales == { [n |-> 1, d |-> 1], [n |-> 2, d |-> 1], [n |-> 3, d |-> 2], [n |-> 5, d |-> 1] }

Offsets == { <<0, 0, 0>>, <<2, 3, 1>>, <<5, 10, -3>> }

MatVec3(m, p) == [i \in 1..3 |-> m[i][1] * p[1] + m[i][2] * p[2] + m[i][3] * p[3]]

\* v.clone().applyMatrix4(rotMatrix).multiplyScalar(scale).add(offset) of the
\* tests: rotate, then scale, then translate
Similar(p, rot, k, t) ==
    [i \in 1..3 |-> (k.n * MatVec3(rot.m, p)[i]) \div (k.d * rot.c) + t[i]]

\* the similarity keeps p on integer coordinates
ExactOn(p, rot, k) ==
    \A i \in 1..3 : (k.n * MatVec3(rot.m, p)[i]) % (k.d * rot.c) = 0

RECURSIVE SeqsUpTo(_, _)
SeqsUpTo(S, n) ==
    IF n = 0 THEN { <<>> }
    ELSE LET shorter == SeqsUpTo(S, n - 1)
         IN shorter \cup { Append(s, x) : s \in { t \in shorter : Len(t) = n - 1 }, x \in S }

SrcAlphabet == { <<1, 0, 0>>, <<0, 1, 0>> }
DstAlphabet == { <<0, 1, 0>>, <<-1, 0, 0>> }

\* pairs that are no similarity of each other: the collinear pair of the
\* orthogonality test, a triangle stretched along one axis, a mirrored
\* triangle, triangles onto unrelated ones, four points onto unrelated four
OddPairs ==
    { << << <<1, 2, 3>>, <<4, 5, 6>>, <<7, 8, 9>> >>,
         << <<2, 3, 1>>, <<5, 6, 4>>, <<8, 9, 7>> >> >>,
      << << <<0, 0, 0>>, <<1, 0, 0>>, <<0, 1, 0>> >>,
         << <<0, 0, 0>>, <<2, 0, 0>>, <<0, 1, 0>> >> >>,
      << Basis, << <<-1, 0, 0>>, <<0, 1, 0>>, <<0, 0, 1>> >> >>,
      << Basis, << <<0, 1, 0>>, <<-1, 0, 0>>, <<0, 0, 2>> >> >>,
      << << <<2, 0, 1>>, <<2, 0, -1>>, <<-1, 0, 0>> >>,
         << <<1, -1, -2>>, <<1, -1, 2>>, <<1, 1, 0>> >> >>,
      << << <<1, 1, 2>>, <<0, 2, 2>>, <<1, 2, 2>> >>,
         << <<-2, 0, 0>>, <<-2, 1, 1>>, <<-2, -1, 2>> >> >>,
      << << <<2, 0, 0>>, <<0, 2, 0>>, <<0, 0, 2>>, <<0, 0, 0>> >>,
         << <<0, 1, 0>>, <<1, 1, 0>>, <<0, 0, 3>>, <<1, 0, 0>> >> >> }

\* reference points handed to computeOptimalRotation in place of centroids
RefPoints == { <<0, 0, 0>>, <<1, 1, 1>>, <<0, -2, 1>> }

Free == [kind |-> "free", rot |-> CHOOSE r \in Rotations : r.name = "identity",
         k |-> [n |-> 1, d |-> 1], t |-> <<0, 0, 0>>]

\* [src, dst, how]: destinations built from the source by a similarity, and
\* freely chosen pairs of sequences (any lengths up to MaxPts, equal or not)
SimilarPairs ==
    { [src |-> s,
       dst |-> [i \in 1..Len(s) |-> Similar(s[i], r, k, t)],
       how |-> [kind |-> "similar", rot |-> r, k |-> k, t |-> t]] :
      <<s, r, k, t>> \in
        { x \in BaseSets \X Rotations \X Scales \X Offsets :
            \A i \in 1..Len(x[1]) : ExactOn(x[1][i], x[2], x[3]) } }

FreePairs ==
    { [src |-> s, dst |-> d, how |-> Free] :
      s \in SeqsUpTo(SrcAlphabet, MaxPts), d \in SeqsUpTo(DstAlphabet, MaxPts) }
    \cup { [src |-> x[1], dst |-> x[2], how |-> Free] : x \in OddPairs }

Pairs == SimilarPairs \cup FreePairs

----------------------------------------------------------------------------
(* State *)

VARIABLES
    call,           \* the function called: "centroid", "rotation" or "rigid"
    src, dst,       \* its point sequences (computeCentroid takes src)
    how,            \* how dst was made from src (for stating the claims)
    srcCentroid,    \* sourceCentroid / srcCentroid
    dstCentroid,    \* targetCentroid / dstCentroid
    pc,             \* "ready", "power" (inside the iteration loop), "done", "threw"
    n,              \* the key matrix
    q,              \* the quaternion
    iter,           \* the loop counter
    result,         \* what the call returned
    calls,          \* how many calls the caller has made
    first,          \* the caller's note of its first call and what came of it
    \* AlignmentState
    transforms,     \* the Transform of each asset slot, or null
    version,        \* the version counter
    lastOp,         \* the last call made on the AlignmentState
    \* IterativeClosestPointRefiner
    icpPc,          \* "idle", "loop" (inside the refinement loop), "done"
    icpIter,        \* rounds completed
    prevMean,       \* mean correspondence distance of the round before
    change,         \* its change in the last round
    running,        \* the running transform
    icpResult,      \* what the refinement returned
    \* validateSIP
    sipPc,          \* "idle", "ready", "done"
    sipProfile,     \* the active metadata profile
    sipMetadata,    \* the metadata: the string of each field
    sipResult,      \* the SIPValidationResult returned
    \* buildShareUrl
    sharePc,          \* "idle", "ready", "done"
    shareState,       \* state: the URLs and transforms of the scene
    shareOptions,     \* options: display mode and UI settings
    includeAlignment, \* the includeAlignment argument
    shareUrl,         \* the URL returned
    \* CrossSectionTool
    csActive,         \* _active
    helperVisible,    \* _transformControls.getHelper().visible
    planeMeshVisible, \* _planeMesh.visible
    orbitControls,    \* _orbitControls: null, or the controls and their enabled flag
    groups,           \* the materials of the meshes and points under each asset group
    clipped,          \* the materials whose clippingPlanes is [this._plane]
    tracked,          \* _trackedMaterials
    given,            \* the materials that were ever given the plane
    csLast,           \* the last call made on the tool
    \* annotation controller
    annotations,                \* the ids of annotationSystem.getAnnotations()
    selectedAnnotation,         \* annotationSystem.selectedAnnotation: an id or NoId
    pending,                    \* a placed annotation waits to be saved or cancelled
    currentPopupAnnotationId,   \* the module variable: an id or NoId
    popupVisible,               \* the annotation popup is on screen
    annLast,                    \* the last operation, its annotation, the popup id before it
    \* fetchDep / fetchText
    fetchPc,        \* "idle", "fetch", "response", "caught", "returned", "threw"
    fetchUrl,       \* the url argument
    attempt,        \* the loop variable
    attempts,       \* what each call of fetch() came to, in order
    delays,         \* how many times the 1000 ms timer was awaited
    err,            \* the error caught
    fetchOut,       \* what the call returned or threw
    \* kiosk bootstrap
    bootPc,         \* where the async bootstrap function stands
    fetchHow,       \* what fetch('./data.a3z') came to
    archiveBytes,   \* archiveBytes: "none", or where the bytes came from
    pickerShown,    \* #file-picker is not hidden
    loadingShown,   \* #loading is displayed
    fileSelected,   \* handleFile ran with a file
    statusText,     \* #loading-text
    viewerShown,    \* #viewer is not hidden
    nEntries,       \* number of data entries of the manifest
    entryIdx,       \* the loop variable of the asset loop
    hasContent,     \* hasContent
    \* Logger
    level,          \* Logger._level
    showTimestamps, \* Logger._showTimestamps
    loggers,        \* Logger._loggers: each cached logger, with the level at its creation
    consoleCall,    \* what the last operation wrote to the console
    logLast,        \* the last operation on the Logger
    \* SceneManager background
    background,             \* scene.background: a colour or a texture
    savedBackgroundColor,   \* savedBackgroundColor: a colour or NoColor
    envAsBackground,        \* envAsBackground
    backgroundImageTexture, \* backgroundImageTexture: a texture or NoTexture
    currentEnvTexture,      \* currentEnvTexture: a texture or NoTexture
    textures,               \* number of textures loaded so far
    disposed,               \* the textures dispose() was called on
    bgLast                  \* the last method that ran

\* the variables of the alignment functions, and those of each other component
alignVars == <<call, src, dst, how, srcCentroid, dstCentroid, pc, n, q, iter, result>>
stateVars == <<transforms, version, lastOp>>
callerVars == <<calls, first>>
icpVars == <<icpPc, icpIter, prevMean, change, running, icpResult>>

sipVars == <<sipPc, sipProfile, sipMetadata, sipResult>>

shareVars == <<sharePc, shareState, shareOptions, includeAlignment, shareUrl>>

csVars == <<csActive, helperVisible, planeMeshVisible, orbitControls, groups,
            clipped, tracked, given, csLast>>

\* the variables of the alignment engine and its callers, and of the viewer
engineVars == <<alignVars, callerVars, stateVars, icpVars, sipVars, shareVars>>
annVars == <<annotations, selectedAnnotation, pending, currentPopupAnnotationId,
             popupVisible, annLast>>
fetchVars == <<fetchPc, fetchUrl, attempt, attempts, delays, err, fetchOut>>
bootVars == <<bootPc, fetchHow, archiveBytes, pickerShown, loadingShown, fileSelected,
              statusText, viewerShown, nEntries, entryIdx, hasContent>>
logVars == <<level, showTimestamps, loggers, consoleCall, logLast>>
bgVars == <<background, savedBackgroundColor, envAsBackground, backgroundImageTexture,
            currentEnvTexture, textures, disposed, bgLast>>
viewerVars == <<csVars, annVars, fetchVars, bootVars, logVars, bgVars>>

vars == <<engineVars, viewerVars>>

\* what an alignment call leaves alone
notAlign == <<callerVars, stateVars, icpVars, sipVars, shareVars, viewerVars>>

NoCentroid == [num |-> <<0, 0, 0>>, den |-> 1]
NoMatrix == [m |-> << <<0, 0, 0, 0>>, <<0, 0, 0, 0>>, <<0, 0, 0, 0>>, <<0, 0, 0, 0>> >>, den |-> 1]
NoRot == [m |-> << <<0, 0, 0>>, <<0, 0, 0>>, <<0, 0, 0>> >>, den |-> 1]
NoScale == [value |-> One, s2 |-> [p |-> 1, q |-> 1], divided |-> FALSE]

NoResult ==
    [kind |-> "none", centroid |-> NoCentroid, rot |-> NoRot, scale |-> NoScale,
     translation |-> <<Zero, Zero, Zero>>, matrix |-> Identity4]

\* computeOptimalRotation is handed centroids by its caller: the true ones,
\* the origin (as the tests do), or any reference point for identical sets
RotationCentroids(s, d) ==
    { <<[num |-> c, den |-> 1], [num |-> c, den |-> 1]>> :
        c \in IF s = d THEN RefPoints ELSE { <<0, 0, 0>> } }
    \cup IF s # <<>> /\ d # <<>> THEN { <<computeCentroid(s), computeCentroid(d)>> }
         ELSE {}

\* the asset slots of the AlignmentState
Slots == {"splat", "model", "pointcloud"}

\* no Transform: a value that is none of the Transforms
null == [position |-> <<>>, rotation |-> <<>>, scale |-> 0]

\* no call made yet
NoOp == [op |-> "none", slot |-> "none", transform |-> null]

\* a component that is not the one a specification runs stays as it is here
NoCall == [args |-> <<>>, outcome |-> <<>>]

CallerIdle == calls = 1 /\ first = NoCall

AlignIdle ==
    /\ CallerIdle
    /\ call = "none" /\ src = <<>> /\ dst = <<>>
    /\ how = Free
    /\ srcCentroid = NoCentroid /\ dstCentroid = NoCentroid
    /\ pc = "idle" /\ n = NoMatrix /\ q = SeedQ /\ iter = 0 /\ result = NoResult

StateIdle ==
    /\ transforms = [s \in Slots |-> null]
    /\ version = 0
    /\ lastOp = NoOp

\* no distance measured yet
NoMean == -1

NoIcpResult == [transform |-> 0, converged |-> FALSE]

IcpIdle ==
    /\ icpPc = "idle" /\ icpIter = 0 /\ prevMean = NoMean /\ change = NoMean
    /\ running = 0 /\ icpResult = NoIcpResult

SipIdle ==
    /\ sipPc = "idle" /\ sipProfile = "none" /\ sipMetadata = <<>>
    /\ sipResult = [status |-> "none"]

ShareIdle ==
    /\ sharePc = "idle" /\ shareState = <<>> /\ shareOptions = <<>>
    /\ includeAlignment = FALSE /\ shareUrl = <<>>

\* the asset groups a CrossSectionTool walks
Groups == {"model", "pointcloud", "stl"}

\* _orbitControls of a tool constructed without orbit controls
NoControls == [present |-> FALSE, enabled |-> FALSE]

CsIdle ==
    /\ csActive = FALSE /\ helperVisible = FALSE /\ planeMeshVisible = FALSE
    /\ orbitControls = NoControls
    /\ groups = [g \in Groups |-> {}]
    /\ clipped = {} /\ tracked = {} /\ given = {}
    /\ csLast = "none"

\* let currentPopupAnnotationId: string | null = null
NoId == 0

AnnIdle ==
    /\ annotations = {} /\ selectedAnnotation = NoId /\ pending = FALSE
    /\ currentPopupAnnotationId = NoId /\ popupVisible = FALSE
    /\ annLast = [op |-> "none", id |-> NoId, before |-> NoId]

\* no error caught, nothing returned yet
NoErr == [attempt |-> -1, what |-> "none"]
NoFetchOut == [kind |-> "none"]

FetchIdle ==
    /\ fetchPc = "idle" /\ fetchUrl = "" /\ attempt = 0 /\ attempts = <<>>
    /\ delays = 0 /\ err = NoErr /\ fetchOut = NoFetchOut

BootIdle ==
    /\ bootPc = "idle" /\ fetchHow = "none" /\ archiveBytes = "none"
    /\ pickerShown = FALSE /\ loadingShown = TRUE /\ fileSelected = FALSE
    /\ statusText = "" /\ viewerShown = FALSE
    /\ nEntries = 0 /\ entryIdx = 0 /\ hasContent = FALSE

\* const LogLevel = { DEBUG: 0, INFO: 1, WARN: 2, ERROR: 3, NONE: 4 }
LogLevel == [DEBUG |-> 0, INFO |-> 1, WARN |-> 2, ERROR |-> 3, NONE |-> 4]

\* nothing was written
Silent == [fn |-> "none", prefix |-> ""]

LogIdle ==
    /\ level = LogLevel.WARN /\ showTimestamps = FALSE /\ loggers = <<>>
    /\ consoleCall = Silent /\ logLast = [op |-> "none"]

\* null in a texture field, null in savedBackgroundColor
NoTexture == 0
NoColor == "null"

\* a background that is a colour / a texture
ColorBg(c) == [kind |-> "color", color |-> c, texture |-> NoTexture]
TextureBg(t) == [kind |-> "texture", color |-> NoColor, texture |-> t]

\* new Color(COLORS.SCENE_BACKGROUND)
SCENE_BACKGROUND == "COLORS.SCENE_BACKGROUND"

BgIdle ==
    /\ background = ColorBg(SCENE_BACKGROUND) /\ savedBackgroundColor = NoColor
    /\ envAsBackground = FALSE
    /\ backgroundImageTexture = NoTexture /\ currentEnvTexture = NoTexture
    /\ textures = 0 /\ disposed = {} /\ bgLast = "none"

ViewerIdle == CsIdle /\ AnnIdle /\ FetchIdle /\ BootIdle /\ LogIdle /\ BgIdle

EngineIdle == AlignIdle /\ StateIdle /\ IcpIdle /\ SipIdle /\ ShareIdle

Init ==
    /\ StateIdle /\ IcpIdle /\ CallerIdle /\ SipIdle /\ ShareIdle /\ ViewerIdle
    /\ call \in {"centroid", "rotation", "rigid"}
    /\ \E p \in Pairs :
         /\ src = p.src
         /\ how = p.how
         /\ dst = IF call = "centroid" THEN <<>> ELSE p.dst
         /\ \E c \in IF call = "rotation" THEN RotationCentroids(p.src, p.dst)
                     ELSE { <<NoCentroid, NoCentroid>> } :
              srcCentroid = c[1] /\ dstCentroid = c[2]
    /\ pc = "ready"
    /\ n = NoMatrix
    /\ q = SeedQ
    /\ iter = 0
    /\ result = NoResult

\* computeCentroid(points) returns
CentroidCall ==
    /\ pc = "ready" /\ call = "centroid"
    /\ result' = [NoResult EXCEPT !.kind = "centroid", !.centroid = computeCentroid(src)]
    /\ pc' = "done"
    /\ UNCHANGED <<call, src, dst, how, srcCentroid, dstCentroid, n, q, iter>>
    /\ UNCHANGED notAlign

\* computeOptimalRotation up to the start of the power iteration: the pairing
\* loop (which may throw), the key matrix and the seed
EnterRotationKeepsQ(sc, tc) ==
    IF PairingThrows(src, dst)
    THEN /\ pc' = "threw"
         /\ UNCHANGED <<n, q, iter>>
    ELSE /\ n' = KeyMatrix(CovarianceH(src, dst, sc, tc))
         /\ iter' = 0
         /\ pc' = "power"
         /\ UNCHANGED q

EnterRotation(sc, tc) ==
    IF PairingThrows(src, dst)
    THEN /\ pc' = "threw"
         /\ UNCHANGED <<n, q, iter>>
    ELSE /\ n' = KeyMatrix(CovarianceH(src, dst, sc, tc))
         /\ q' = SeedQ
         /\ iter' = 0
         /\ pc' = "power"

RotationCall ==
    /\ pc = "ready" /\ call = "rotation"
    /\ EnterRotation(srcCentroid, dstCentroid)
    /\ UNCHANGED <<call, src, dst, how, srcCentroid, dstCentroid, result>>
    /\ UNCHANGED notAlign

\* computeRigidTransformFromPoints up to the start of the power iteration
RigidCall ==
    /\ pc = "ready" /\ call = "rigid"
    /\ srcCentroid' = computeCentroid(src)
    /\ dstCentroid' = computeCentroid(dst)
    /\ EnterRotation(srcCentroid', dstCentroid')
    /\ UNCHANGED <<call, src, dst, how, result>>
    /\ UNCHANGED notAlign

\* one round of the loop that normalizes: q = newQ / len
PowerRound ==
    /\ pc = "power" /\ iter < MaxIter
    /\ LET newQ == NewQ(n, q)
           unit == Normalize(newQ)
       IN /\ ~LenBelowFloor(newQ, n, q)
          /\ MaxAbs(unit.v) <= MaxMag
          /\ q' = unit
    /\ iter' = iter + 1
    /\ UNCHANGED <<call, src, dst, how, srcCentroid, dstCentroid, pc, n, result>>
    /\ UNCHANGED notAlign

LoopExitAnyRound == pc = "power"

\* the loop is left (break on a short newQ, or iter = 50)
LoopExit ==
    /\ pc = "power"
    /\ iter = MaxIter \/ LenBelowFloor(NewQ(n, q), n, q)

\* the rest of computeOptimalRotation: the quaternion as a matrix
RotationReturn ==
    /\ LoopExit /\ call = "rotation"
    /\ result' = [NoResult EXCEPT !.kind = "matrix", !.rot = QuatToRot(q),
                                  !.matrix = RotMatrix4(QuatToRot(q))]
    /\ pc' = "done"
    /\ UNCHANGED <<call, src, dst, how, srcCentroid, dstCentroid, n, q, iter>>
    /\ UNCHANGED notAlign

\* the rest of computeRigidTransformFromPoints: scale, translation, M = T * S * R
RigidReturn ==
    /\ LoopExit /\ call = "rigid"
    /\ LET rotMatrix == RotMatrix4(QuatToRot(q))
           scale == UniformScale(SpreadSq(src, srcCentroid, Len(src)),
                                 SpreadSq(dst, dstCentroid, Len(src)))
           translation == Translation(srcCentroid, dstCentroid, rotMatrix, scale)
       IN result' = [kind |-> "matrix", centroid |-> NoCentroid, rot |-> QuatToRot(q),
                     scale |-> scale, translation |-> translation,
                     matrix |-> Compose(translation, scale, rotMatrix)]
    /\ pc' = "done"
    /\ UNCHANGED <<call, src, dst, how, srcCentroid, dstCentroid, n, q, iter>>
    /\ UNCHANGED notAlign

Next ==
    \/ CentroidCall
    \/ RotationCall
    \/ RigidCall
    \/ PowerRound
    \/ RotationReturn
    \/ RigidReturn

Spec == Init /\ [][Next]_vars

----------------------------------------------------------------------------
(* Vocabulary of the properties *)

Returned == pc = "done"

Cross(u, w) ==
    <<u[2] * w[3] - u[3] * w[2], u[3] * w[1] - u[1] * w[3], u[1] * w[2] - u[2] * w[1]>>

Minus(u, w) == [i \in 1..3 |-> u[i] - w[i]]

\* some three of the points span a plane
NonCollinear(s) ==
    \E i, j \in 1..Len(s) : Cross(Minus(s[i], s[1]), Minus(s[j], s[1])) # <<0, 0, 0>>

\* the returned matrix takes the point p to the point d
MapsTo(p, d) == applyMatrix4(PointNum(p), result.matrix, result.scale.s2) = PointNum(d)

MapsSrcOntoDst == \A i \in 1..Len(src) : MapsTo(src[i], dst[i])

IdentityRot(r) == \A i, j \in 1..3 : r.m[i][j] = (IF i = j THEN r.den ELSE 0)

\* the test vectors against which the eigenvalue of q is compared
TestVecs == { x \in [1..4 -> {-1, 0, 1}] : x # [i \in 1..4 |-> 0] }

Dot4(u, w) == u[1] * w[1] + u[2] * w[2] + u[3] * w[3] + u[4] * w[4]

QuadForm(m, x) == SeqSum([i \in 1..4 |-> x[i] * Dot4(m[i], x)])

\* q is an eigenvector of the key matrix
IsEigenvector(m, v) ==
    LET w == [i \in 1..4 |-> Dot4(m[i], v)]
    IN \A i, j \in 1..4 : w[i] * v[j] = w[j] * v[i]

\* no test vector has a larger Rayleigh quotient than q: a condition every
\* eigenvector of the largest eigenvalue satisfies
NoLargerQuotient(m, v) ==
    \A x \in TestVecs : QuadForm(m, x) * Dot4(v, v) <= QuadForm(m, v) * Dot4(x, x)

ZeroH == \A i, j \in 1..3 : CovarianceH(src, dst, srcCentroid, dstCentroid).m[i][j] = 0

----------------------------------------------------------------------------
(* C1: for N >= 3 non-collinear source points and destinations made from    *)
(* them by one exact similarity (rotation, uniform scale, translation), the *)
(* matrix computeRigidTransformFromPoints returns maps every source point   *)
(* onto its destination point.                                              *)
C1_RoundTrip ==
    (Returned /\ call = "rigid" /\ how.kind = "similar"
       /\ Len(src) >= 3 /\ NonCollinear(src))
    => MapsSrcOntoDst

----------------------------------------------------------------------------
(* C2: whenever the cross-covariance matrix is not zero, the quaternion     *)
(* computeOptimalRotation ends with is an eigenvector of the key matrix for *)
(* its largest eigenvalue.                                                  *)
C2_DominantEigenvector ==
    (Returned /\ call \in {"rotation", "rigid"} /\ ~ZeroH)
    => (IsEigenvector(n.m, q.v) /\ NoLargerQuotient(n.m, q.v))

----------------------------------------------------------------------------
(* Unit norm, orthonormality and determinant of a rotation block            *)

UnitQuaternion == SumSq(q.v) = q.d2

RotOrthonormal(r) ==
    \A i, j \in 1..3 :
        r.m[i][1] * r.m[j][1] + r.m[i][2] * r.m[j][2] + r.m[i][3] * r.m[j][3]
          = (IF i = j THEN r.den * r.den ELSE 0)

Det3(m) ==
    m[1][1] * (m[2][2] * m[3][3] - m[2][3] * m[3][2])
      - m[1][2] * (m[2][1] * m[3][3] - m[2][3] * m[3][1])
      + m[1][3] * (m[2][1] * m[3][2] - m[2][2] * m[3][1])

RotProper(r) == Det3(r.m) = r.den * r.den * r.den

(* C3: for equal-length sequences computeOptimalRotation does not throw,    *)
(* the quaternion has unit norm at the seed and after every round, and the  *)
(* returned 3x3 block is orthonormal with determinant +1 and no NaN.        *)
C3_ProperRotation ==
    (call \in {"rotation", "rigid"} /\ Len(src) = Len(dst))
    => /\ pc # "threw"
       /\ UnitQuaternion
       /\ Returned => /\ result.rot.den > 0
                      /\ RotOrthonormal(result.rot)
                      /\ RotProper(result.rot)

\* all 50 rounds were run and ended on a quaternion other than the seed
C3_Witness ==
    /\ Returned /\ call = "rigid" /\ iter = MaxIter
    /\ Len(src) = Len(dst)
    /\ q.v # SeedQ.v
    /\ ~IdentityRot(result.rot)

----------------------------------------------------------------------------
(* Destinations dst = k * src + t with k > 0 and no rotation                *)

NoRotation == how.kind = "similar" /\ how.rot.name = "identity"

Coincident(s) == \A i \in 1..Len(s) : s[i] = s[1]

ScaleIs(k) == result.scale.value = Rat(k.n, k.d)

----------------------------------------------------------------------------
(* C5: computeOptimalRotation(S, S, c, c) is the identity rotation for      *)
(* every S and every reference point c, and                                 *)
(* computeRigidTransformFromPoints(S, S) is the identity transform (S not   *)
(* empty).                                                                  *)
C5_IdenticalSets ==
    (/\ Returned /\ src = dst
     /\ \/ call = "rotation" /\ srcCentroid = dstCentroid
        \/ call = "rigid" /\ src # <<>>)
    => result.matrix = Identity4

\* a spanning set about a reference point that is not its centroid
C5_Witness ==
    /\ Returned /\ call = "rotation" /\ src = dst
    /\ Len(src) >= 3 /\ NonCollinear(src)
    /\ srcCentroid = [num |-> <<0, -2, 1>>, den |-> 1]
    /\ dstCentroid = srcCentroid
    /\ srcCentroid # computeCentroid(src)
    /\ iter = MaxIter

----------------------------------------------------------------------------
(* C6: the returned matrix is T * S * R: its 3x3 block is scale * R, its    *)
(* last column is dstCentroid - scale * R * srcCentroid, its last row is    *)
(* (0, 0, 0, 1); so it maps the source centroid onto the destination        *)
(* centroid.                                                                *)
C6_Composition ==
    (Returned /\ call = "rigid" /\ src # <<>>)
    => LET s2 == result.scale.s2
           k == result.scale.value
           r == RotMatrix4(result.rot)
           sc == CentroidNum(srcCentroid)
           dc == CentroidNum(dstCentroid)
           rsc == [i \in 1..3 |->
                     NumAdd(NumAdd(NumMul(r[i][1], sc[1], s2), NumMul(r[i][2], sc[2], s2)),
                            NumMul(r[i][3], sc[3], s2))]
       IN /\ \A i, j \in 1..3 : result.matrix[i][j] = NumMul(k, r[i][j], s2)
          /\ \A i \in 1..3 : result.matrix[i][4] = NumSub(dc[i], NumMul(k, rsc[i], s2))
          /\ result.matrix[4] = <<Zero, Zero, Zero, One>>
          /\ applyMatrix4(sc, result.matrix, s2) = dc

\* a rotation that is not the identity, an irrational scale, a translation
C6_Witness ==
    /\ Returned /\ call = "rigid" /\ src # <<>>
    /\ ~IdentityRot(result.rot)
    /\ result.scale.value.b # 0
    /\ result.translation # <<Zero, Zero, Zero>>
    /\ srcCentroid.num # <<0, 0, 0>>

----------------------------------------------------------------------------
ZeroSpread == ~SpreadAboveFloor(SpreadSq(src, srcCentroid, Len(src)))

(* C7: when the source spread is not above 1e-10 the quotient by the spread *)
(* is not computed, scale is 1 and the source point is mapped onto the      *)
(* destination centroid.                                                    *)
C7_ZeroSpread ==
    (Returned /\ call = "rigid" /\ src # <<>> /\ ZeroSpread)
    => /\ ~result.scale.divided
       /\ result.scale.value = One
       /\ applyMatrix4(PointNum(src[1]), result.matrix, result.scale.s2)
            = CentroidNum(dstCentroid)

\* three coincident source points, destinations that do not coincide
C7_Witness ==
    /\ Returned /\ call = "rigid" /\ Len(src) = 3 /\ Len(dst) = 3
    /\ Coincident(src) /\ ~Coincident(dst)
    /\ ZeroSpread

----------------------------------------------------------------------------
(* C8: one or two correspondences do not throw; a single correspondence     *)
(* gives identity rotation, scale 1 and translation dst - src.              *)
C8_FewPoints ==
    /\ (call = "rigid" /\ Len(src) = Len(dst) /\ Len(src) \in {1, 2}) => pc # "threw"
    /\ (Returned /\ call = "rigid" /\ Len(src) = 1 /\ Len(dst) = 1)
       => /\ IdentityRot(result.rot)
          /\ result.scale.value = One
          /\ result.translation = PointNum(Minus(dst[1], src[1]))
          /\ result.matrix = makeTranslation(result.translation[1],
                                             result.translation[2],
                                             result.translation[3])

C8_Witness ==
    /\ Returned /\ call = "rigid" /\ Len(src) = 1 /\ Len(dst) = 1
    /\ dst[1] # src[1]

----------------------------------------------------------------------------
(* C9: a call with sequences of different lengths fails with an error,      *)
(* whichever of the two is the longer; it never gets as far as computing a  *)
(* transform.                                                               *)
C9_MismatchFailsFast ==
    (call \in {"rotation", "rigid"} /\ Len(src) # Len(dst) /\ pc # "ready")
    => pc = "threw"

----------------------------------------------------------------------------
(* C10: computeCentroid of an empty sequence is rejected with an error; it  *)
(* returns no value.                                                        *)
C10_EmptyCentroidRejected ==
    (call = "centroid" /\ src = <<>> /\ pc # "ready")
    => (pc = "threw" /\ ~Returned)

----------------------------------------------------------------------------
\* the round at hand would break: len < 1e-10
ShortRound == LenBelowFloor(NewQ(n, q), n, q)

LoopReturns == pc = "power" /\ pc' = "done"

(* C11: the power iteration runs at most 50 rounds, takes a round only      *)
(* while the norm of N*q is not below 1e-10, and on the first round whose   *)
(* norm is below 1e-10 it stops at once: the quaternion of the round before *)
(* (the seed (1,0,0,0) on the first round) is kept unchanged and is the one *)
(* the result is made from; the loop raises no exception.                   *)
C11_PowerIterationStops ==
    /\ [](iter \in 0..MaxIter)
    /\ [](pc = "power" /\ iter = 0 => q = SeedQ)
    /\ [][pc = "power" => pc' # "threw"]_vars
    /\ [][iter' # iter => iter' = iter + 1 /\ ~ShortRound]_vars
    /\ [][pc = "power" /\ ShortRound => pc' = "done"]_vars
    /\ [][LoopReturns => /\ iter = MaxIter \/ ShortRound
                         /\ q' = q /\ iter' = iter
                         /\ result'.rot = QuatToRot(q)]_vars

\* the first round of a call on three coincident source points is short: the
\* loop stopped at once and the seed went into the result
C11_Witness ==
    /\ Returned /\ call = "rigid" /\ iter = 0
    /\ Len(src) = 3 /\ Len(dst) = 3 /\ Coincident(src) /\ ~Coincident(dst)
    /\ q = SeedQ /\ IdentityRot(result.rot)

----------------------------------------------------------------------------
(* C12: for a non-empty sequence computeCentroid returns the component-wise *)
(* arithmetic mean (a finite point about which the deviations of the points *)
(* sum to zero in every coordinate); for N >= 1 copies of one point P, and  *)
(* so for a single point, it returns P.                                     *)
C12_CentroidIsMean ==
    (Returned /\ call = "centroid" /\ src # <<>>)
    => LET c == result.centroid
       IN /\ c.den > 0
          /\ \A i \in 1..3 :
               SeqSum([k \in 1..Len(src) |-> c.den * src[k][i] - c.num[i]]) = 0
          /\ Coincident(src) => \A i \in 1..3 : c.num[i] = c.den * src[1][i]

\* three distinct points whose mean is not a point of integer coordinates
C12_Witness ==
    /\ Returned /\ call = "centroid" /\ Len(src) = 3 /\ ~Coincident(src)
    /\ \E i \in 1..3 : result.centroid.num[i] % 3 # 0

----------------------------------------------------------------------------
(* AlignmentState (section 4.8): setTransform, getTransform, clearTransform *)
(* and the version counter                                                  *)

\* Transform: {position: [x,y,z], rotation: [x,y,z], scale: number}
Transforms ==
    [position : { <<0, 0, 0>>, <<1, 2, 3>> },
     rotation : { <<0, 0, 0>>, <<0, 1, 0>> },
     scale : {1, 2}]

\* what an AlignmentState call leaves alone
notState == <<alignVars, callerVars, icpVars, sipVars, shareVars, viewerVars>>

\* the new entry takes every field the caller filled and keeps the rest
setTransformMerging(slot, transform) ==
    /\ version < MaxVersion
    /\ transforms' =
         [transforms EXCEPT ![slot] =
            IF @ = null THEN transform
            ELSE [position |-> transform.position,
                  rotation |-> IF transform.rotation = <<0, 0, 0>>
                               THEN @.rotation ELSE transform.rotation,
                  scale |-> transform.scale]]
    /\ version' = version + 1
    /\ lastOp' = [op |-> "set", slot |-> slot, transform |-> transform]
    /\ UNCHANGED notState

\* setTransform(slot, transform): the entry of the slot is overwritten and the
\* version incremented
setTransform(slot, transform) ==
    /\ version < MaxVersion
    /\ transforms' = [transforms EXCEPT ![slot] = transform]
    /\ version' = version + 1
    /\ lastOp' = [op |-> "set", slot |-> slot, transform |-> transform]
    /\ UNCHANGED notState

\* the version is left alone when the slot holds nothing to clear
clearTransformIfSet(slot) ==
    /\ version < MaxVersion
    /\ transforms' = [transforms EXCEPT ![slot] = null]
    /\ version' = IF transforms[slot] = null THEN version ELSE version + 1
    /\ lastOp' = [op |-> "clear", slot |-> slot, transform |-> null]
    /\ UNCHANGED notState

\* clearTransform(slot): the entry of the slot becomes null and the version is
\* incremented
clearTransform(slot) ==
    /\ version < MaxVersion
    /\ transforms' = [transforms EXCEPT ![slot] = null]
    /\ version' = version + 1
    /\ lastOp' = [op |-> "clear", slot |-> slot, transform |-> null]
    /\ UNCHANGED notState

\* getTransform(slot) -> Transform | null
getTransform(slot) == transforms[slot]

SetTransformCall == \E slot \in Slots, transform \in Transforms : setTransform(slot, transform)

ClearTransformCall == \E slot \in Slots : clearTransform(slot)

InitState == AlignIdle /\ StateIdle /\ IcpIdle /\ SipIdle /\ ShareIdle /\ ViewerIdle

NextState ==
    \/ SetTransformCall
    \/ ClearTransformCall

SpecState == InitState /\ [][NextState]_vars

\* a setTransform or clearTransform call was made in the step
Mutation == lastOp' # lastOp \/ version' # version \/ transforms' # transforms

(* C13: getTransform(slot) is null before any call; after setTransform(s,t) *)
(* getTransform(s) is exactly t, whatever the slot held before; after       *)
(* clearTransform(s) it is null; and a call on one slot leaves what         *)
(* getTransform returns for every other slot as it was.                     *)
C13_SlotHoldsLastSet ==
    /\ [](lastOp = NoOp => \A s \in Slots : getTransform(s) = null)
    /\ [](lastOp.op = "set" => getTransform(lastOp.slot) = lastOp.transform)
    /\ [](lastOp.op = "clear" => getTransform(lastOp.slot) = null)
    /\ [][Mutation => \A s \in Slots \ {lastOp'.slot} :
                        getTransform(s)' = getTransform(s)]_vars

\* the third call set the model slot, while the splat slot holds a different
\* Transform and the pointcloud slot is null
C13_Witness ==
    /\ lastOp.op = "set" /\ lastOp.slot = "model"
    /\ lastOp.transform = [position |-> <<1, 2, 3>>, rotation |-> <<0, 0, 0>>, scale |-> 2]
    /\ version = 3
    /\ transforms["splat"] = [position |-> <<0, 0, 0>>, rotation |-> <<0, 1, 0>>, scale |-> 1]
    /\ transforms["pointcloud"] = null

(* C14: version never decreases, every setTransform and every               *)
(* clearTransform call increases it (by one), and while version is          *)
(* unchanged the slot transforms are unchanged.                             *)
C14_VersionCounts ==
    /\ [][version' >= version]_vars
    /\ [][Mutation => version' = version + 1]_vars
    /\ [][version' = version => transforms' = transforms]_vars

\* clearTransform was called on a slot that was null already
C14_Witness ==
    /\ lastOp.op = "clear" /\ version = 2
    /\ \A s \in Slots : transforms[s] = null

----------------------------------------------------------------------------
(* IterativeClosestPointRefiner (section 4.7): the refinement loop.  The    *)
(* correspondences and the fit of a round are not followed: a round yields  *)
(* any mean correspondence distance and any step of the running transform   *)
(* (an integer offset stands for the transform, addition for                *)
(* accumulation).                                                           *)

\* the iteration cap and the convergence threshold (both configurable)
IcpMaxIter == 5
IcpThreshold == 2

\* the transforms a round can compute
IcpSteps == {-1, 0, 1}

notIcp == <<alignVars, callerVars, stateVars, sipVars, shareVars, viewerVars>>

\* the mean distance changed by less than the threshold between two rounds
Converged(c) == c # NoMean /\ c < IcpThreshold

\* the refinement is started on two clouds
IcpStart ==
    /\ icpPc = "idle"
    /\ icpPc' = "loop"
    /\ icpIter' = 0 /\ prevMean' = NoMean /\ change' = NoMean
    /\ running' = 0 /\ icpResult' = NoIcpResult
    /\ UNCHANGED notIcp

\* one round: correspondences, fit, accumulation, then the convergence test
IcpRound ==
    /\ icpPc = "loop" /\ icpIter < IcpMaxIter
    /\ \E mean \in 0..MaxDist, step \in IcpSteps :
         /\ running' = running + step
         /\ change' = IF prevMean = NoMean THEN NoMean ELSE Abs(prevMean - mean)
         /\ prevMean' = mean
         /\ icpIter' = icpIter + 1
         /\ IF Converged(change')
            THEN /\ icpPc' = "done"
                 /\ icpResult' = [transform |-> running', converged |-> TRUE]
            ELSE UNCHANGED <<icpPc, icpResult>>
    /\ UNCHANGED notIcp

IcpCapReturnsConverged ==
    /\ icpPc = "loop" /\ icpIter = IcpMaxIter
    /\ icpPc' = "done"
    /\ icpResult' = [transform |-> running, converged |-> TRUE]
    /\ UNCHANGED <<icpIter, prevMean, change, running>>
    /\ UNCHANGED notIcp

\* the iteration cap is reached without convergence: the last computed
\* transform is returned with converged = false
IcpCapReached ==
    /\ icpPc = "loop" /\ icpIter = IcpMaxIter
    /\ icpPc' = "done"
    /\ icpResult' = [transform |-> running, converged |-> FALSE]
    /\ UNCHANGED <<icpIter, prevMean, change, running>>
    /\ UNCHANGED notIcp

InitIcp == AlignIdle /\ StateIdle /\ IcpIdle /\ SipIdle /\ ShareIdle /\ ViewerIdle

NextIcp ==
    \/ IcpStart
    \/ IcpRound
    \/ IcpCapReached

\* the loop is synchronous code: once started it runs to its end
SpecIcp ==
    InitIcp /\ [][NextIcp]_vars
    /\ WF_vars(IcpStart) /\ WF_vars(IcpRound) /\ WF_vars(IcpCapReached)

(* C15: the refinement loop always ends, after at most the iteration cap of *)
(* rounds; it ends with converged = true exactly when the mean distance of  *)
(* the last round differs from the one before by less than the threshold,   *)
(* and otherwise at the cap with converged = false; either way it returns   *)
(* the last computed transform.                                             *)
C15_IcpTerminates ==
    /\ <>(icpPc = "done")
    /\ [](icpIter \in 0..IcpMaxIter)
    /\ [](icpPc = "done" =>
            /\ icpResult.transform = running
            /\ icpResult.converged <=> Converged(change)
            /\ ~icpResult.converged => icpIter = IcpMaxIter)
    /\ [][icpPc = "done" => icpPc' = "done"]_vars

\* the cap was reached without convergence, on a transform that moved
C15_Witness ==
    /\ icpPc = "done" /\ ~icpResult.converged
    /\ icpIter = IcpMaxIter /\ icpResult.transform = 3
    /\ change >= IcpThreshold

----------------------------------------------------------------------------
(* A caller that makes several calls of the alignment functions, one after  *)
(* the other                                                                *)

\* the arguments of the call at hand (computeOptimalRotation is handed the
\* centroids, the other two functions compute them)
Args ==
    <<call, src, dst,
      IF call = "rotation" THEN <<srcCentroid, dstCentroid>> ELSE <<>> >>

\* what came of the call at hand: the value returned, or the exception
Outcome ==
    IF pc = "done" THEN <<"returned", result>> ELSE <<"threw">>

\* the point sequences the caller passes: the basis and its image under a
\* quarter turn, a pair of sequences about the origin, coincident points, a
\* pair that gives an irrational scale, a destination that is too short
CallerPairs ==
    { <<Basis, << <<0, 1, 0>>, <<-1, 0, 0>>, <<0, 0, 1>> >> >>,
      << << <<0, 1, 0>>, <<1, 0, 0>> >>, << <<0, 1, 0>>, <<-1, 0, 0>> >> >>,
      << << <<1, 1, 1>>, <<1, 1, 1>>, <<1, 1, 1>> >>, Basis >>,
      << << <<1, 1, 2>>, <<0, 2, 2>>, <<1, 2, 2>> >>,
         << <<-2, 0, 0>>, <<-2, 1, 1>>, <<-2, -1, 2>> >> >>,
      << << <<1, 0, 0>>, <<0, 1, 0>> >>, << <<0, 1, 0>> >> >> }

Origin == [num |-> <<0, 0, 0>>, den |-> 1]

\* the caller starts a call on arguments of its choice
StartCall(c, p) ==
    /\ call' = c
    /\ src' = p[1]
    /\ dst' = IF c = "centroid" THEN <<>> ELSE p[2]
    /\ how' = Free
    /\ srcCentroid' = IF c = "rotation" THEN Origin ELSE NoCentroid
    /\ dstCentroid' = IF c = "rotation" THEN Origin ELSE NoCentroid
    /\ pc' = "ready"

\* the call at hand has ended and the caller makes its next call; nothing of
\* the ended call is cleared
NextCall ==
    /\ pc \in {"done", "threw"} /\ calls < MaxCalls
    /\ \E c \in {"centroid", "rotation", "rigid"}, p \in CallerPairs : StartCall(c, p)
    /\ calls' = calls + 1
    /\ first' = IF first = NoCall THEN [args |-> Args, outcome |-> Outcome] ELSE first
    /\ UNCHANGED <<n, q, iter, result>>
    /\ UNCHANGED <<stateVars, icpVars, sipVars, shareVars, viewerVars>>

InitCaller ==
    /\ StateIdle /\ IcpIdle /\ CallerIdle /\ SipIdle /\ ShareIdle /\ ViewerIdle
    /\ call \in {"centroid", "rotation", "rigid"}
    /\ \E p \in CallerPairs :
         /\ src = p[1]
         /\ dst = IF call = "centroid" THEN <<>> ELSE p[2]
    /\ how = Free
    /\ srcCentroid = IF call = "rotation" THEN Origin ELSE NoCentroid
    /\ dstCentroid = IF call = "rotation" THEN Origin ELSE NoCentroid
    /\ pc = "ready" /\ n = NoMatrix /\ q = SeedQ /\ iter = 0 /\ result = NoResult

NextCaller ==
    \/ CentroidCall
    \/ RotationCall
    \/ RigidCall
    \/ PowerRound
    \/ RotationReturn
    \/ RigidReturn
    \/ NextCall

SpecCaller == InitCaller /\ [][NextCaller]_vars

Ended == pc \in {"done", "threw"}

(* C16: no call leaves anything behind that a later call picks up: a call   *)
(* with the arguments of the caller's first call ends as that first call    *)
(* ended (the same value returned, or an exception again), whatever calls   *)
(* were made in between; and the argument point sequences (and the          *)
(* centroids handed to computeOptimalRotation) are as they were passed      *)
(* throughout the call.                                                     *)
C16_NoHiddenState ==
    /\ []((Ended /\ first # NoCall /\ Args = first.args) => Outcome = first.outcome)
    /\ [][~Ended => /\ src' = src /\ dst' = dst
                    /\ call = "rotation" =>
                         srcCentroid' = srcCentroid /\ dstCentroid' = dstCentroid]_vars

\* the third call repeats the first, a computeRigidTransformFromPoints call
\* that ran all the rounds of the power iteration
C16_Witness ==
    /\ calls = 3 /\ Returned /\ call = "rigid" /\ iter = MaxIter
    /\ Args = first.args /\ ~IdentityRot(result.rot)

----------------------------------------------------------------------------
(* validateSIP (sip-validator): the compliance check of the metadata of an  *)
(* archive against a profile.  A string is the sequence of its characters.  *)

\* the strings the metadata of the model is made of
Str_Empty == <<>>
Str_Blank == <<" ", " ">>
Str_NotSpecified == <<"N", "o", "t", " ", "s", "p", "e", "c", "i", "f", "i", "e", "d">>
Str_NotSpecifiedPadded == <<" ", "N", "o", "t", " ", "s", "p", "e", "c", "i", "f", "i", "e", "d", " ">>
Str_Text == <<"L", "a", "b", " ", "A">>
Str_TextPadded == <<" ", "T", " ">>
Str_Orcid == <<"0", "0", "0", "0", "-", "0", "0", "0", "2", "-", "1", "8", "2", "5", "-", "0", "0", "9", "7">>
Str_OrcidX == <<"0", "0", "0", "0", "-", "0", "0", "0", "2", "-", "1", "6", "9", "4", "-", "2", "3", "3", "X">>
Str_OrcidInvalid == <<"1", "2", "3", "4", "-", "I", "N", "V", "A", "L", "I", "D">>
Str_Date == <<"2", "0", "2", "5", "-", "0", "1", "-", "1", "5">>
Str_NotADate == <<"n", "o", "t", "-", "a", "-", "d", "a", "t", "e">>
Str_Lat == <<"4", "5", ".", "5">>
Str_LatSouthPole == <<"-", "9", "0">>
Str_LatTooLarge == <<"9", "5">>
Str_Lon == <<"1", "8", "0">>
Str_LonTooSmall == <<"-", "2", "0", "0">>

Digits == {"0", "1", "2", "3", "4", "5", "6", "7", "8", "9"}

DigitValue(c) ==
    CASE c = "0" -> 0 [] c = "1" -> 1 [] c = "2" -> 2 [] c = "3" -> 3 [] c = "4" -> 4
      [] c = "5" -> 5 [] c = "6" -> 6 [] c = "7" -> 7 [] c = "8" -> 8 [] c = "9" -> 9

RECURSIVE TrimStart(_)
TrimStart(s) == IF s # <<>> /\ Head(s) = " " THEN TrimStart(Tail(s)) ELSE s

RECURSIVE TrimEnd(_)
TrimEnd(s) ==
    IF s # <<>> /\ s[Len(s)] = " " THEN TrimEnd(SubSeq(s, 1, Len(s) - 1)) ELSE s

\* String.prototype.trim
Trim(s) == TrimEnd(TrimStart(s))

\* the profiles, and the fields getFieldsForProfile gives for each: the
\* completeness fields of the tier and of the tiers below it
Profiles == {"basic", "standard", "archival"}

BasicFields ==
    <<"meta-title", "meta-description", "meta-tags", "meta-license",
      "meta-capture-date", "meta-capture-device", "meta-operator",
      "meta-location">>

StandardFields ==
    <<"meta-device-serial", "meta-operator-orcid", "meta-processing-notes",
      "meta-conventions", "meta-quality-tier", "meta-quality-accuracy",
      "meta-quality-res-value", "meta-quality-scale-verify",
      "meta-splat-created-by", "meta-mesh-created-by",
      "meta-pointcloud-created-by">>

ArchivalFields ==
    <<"meta-archival-title", "meta-archival-creator",
      "meta-archival-date-created", "meta-archival-medium",
      "meta-archival-provenance", "meta-archival-copyright",
      "meta-coverage-location", "meta-coverage-lat", "meta-coverage-lon",
      "meta-archival-condition", "meta-archival-credit",
      "meta-archival-context-desc", "meta-material-workflow",
      "meta-material-colorspace", "meta-pres-render-req">>

getFieldsForProfile(profile) ==
    CASE profile = "basic" -> BasicFields
      [] profile = "standard" -> BasicFields \o StandardFields
      [] profile = "archival" -> BasicFields \o StandardFields \o ArchivalFields

AllFields == { getFieldsForProfile("archival")[i] : i \in 1..Len(getFieldsForProfile("archival")) }

\* the field ids that are keys of REQUIRED_FIELDS[profile]
REQUIRED_FIELDS(profile) ==
    CASE profile = "basic" ->
           {"meta-title", "meta-operator", "meta-capture-date"}
      [] profile = "standard" ->
           {"meta-title", "meta-operator", "meta-capture-date", "meta-description",
            "meta-capture-device", "meta-quality-tier"}
      [] profile = "archival" ->
           {"meta-title", "meta-operator", "meta-capture-date", "meta-description",
            "meta-capture-device", "meta-quality-tier", "meta-archival-title",
            "meta-archival-copyright", "meta-pres-render-req"}

FIELD_LABELS ==
    [f \in AllFields |->
       CASE f = "meta-title" -> "Title"
         [] f = "meta-description" -> "Description"
         [] f = "meta-tags" -> "Tags"
         [] f = "meta-license" -> "License"
         [] f = "meta-capture-date" -> "Capture Date"
         [] f = "meta-capture-device" -> "Capture Device"
         [] f = "meta-operator" -> "Scan Operator"
         [] f = "meta-location" -> "Location"
         [] f = "meta-device-serial" -> "Device Serial"
         [] f = "meta-operator-orcid" -> "Operator ORCID"
         [] f = "meta-processing-notes" -> "Processing Notes"
         [] f = "meta-conventions" -> "Conventions"
         [] f = "meta-quality-tier" -> "Quality Tier"
         [] f = "meta-quality-accuracy" -> "Accuracy Grade"
         [] f = "meta-quality-res-value" -> "Capture Resolution"
         [] f = "meta-quality-scale-verify" -> "Scale Verification"
         [] f = "meta-splat-created-by" -> "Splat Created By"
         [] f = "meta-mesh-created-by" -> "Mesh Created By"
         [] f = "meta-pointcloud-created-by" -> "Point Cloud Created By"
         [] f = "meta-archival-title" -> "Catalog Title"
         [] f = "meta-archival-creator" -> "Creator"
         [] f = "meta-archival-date-created" -> "Date Created"
         [] f = "meta-archival-medium" -> "Medium"
         [] f = "meta-archival-provenance" -> "Provenance"
         [] f = "meta-archival-copyright" -> "Original Object Copyright"
         [] f = "meta-coverage-location" -> "Subject Location"
         [] f = "meta-coverage-lat" -> "Latitude"
         [] f = "meta-coverage-lon" -> "Longitude"
         [] f = "meta-archival-condition" -> "Condition"
         [] f = "meta-archival-credit" -> "Credit Line"
         [] f = "meta-archival-context-desc" -> "Context Description"
         [] f = "meta-material-workflow" -> "Material Workflow"
         [] f = "meta-material-colorspace" -> "Color Space"
         [] f = "meta-pres-render-req" -> "Rendering Requirements"]

\* every field of a profile has a label in FIELD_LABELS
getFieldLabel(fieldId) == FIELD_LABELS[fieldId]

\* the metadata as FIELD_VALUE_MAP reads it: the string of each field; a field
\* without accessor reads as the empty string
resolveFieldValue(fieldId, metadata) ==
    IF fieldId \in DOMAIN metadata THEN metadata[fieldId] ELSE Str_Empty

\* the number of leading decimal digits of s
RECURSIVE DigitPrefixLen(_)
DigitPrefixLen(s) ==
    IF s # <<>> /\ Head(s) \in Digits THEN 1 + DigitPrefixLen(Tail(s)) ELSE 0

\* the value of a sequence of decimal digits
RECURSIVE DigitsValue(_)
DigitsValue(s) ==
    IF s = <<>> THEN 0
    ELSE 10 * DigitsValue(SubSeq(s, 1, Len(s) - 1)) + DigitValue(s[Len(s)])

RECURSIVE Pow10(_)
Pow10(e) == IF e = 0 THEN 1 ELSE 10 * Pow10(e - 1)

\* parseFloat(v) for a string without exponent part: the longest prefix that is
\* a sign, digits and a fraction, as num / den; NaN when it has no digit
parseFloat(v) ==
    LET signed == v # <<>> /\ Head(v) \in {"-", "+"}
        body == IF signed THEN Tail(v) ELSE v
        k == DigitPrefixLen(body)
        afterInt == SubSeq(body, k + 1, Len(body))
        fracSrc == IF afterInt # <<>> /\ Head(afterInt) = "." THEN Tail(afterInt) ELSE <<>>
        m == DigitPrefixLen(fracSrc)
        magnitude == DigitsValue(SubSeq(body, 1, k) \o SubSeq(fracSrc, 1, m))
    IN IF k + m = 0 THEN [nan |-> TRUE, num |-> 0, den |-> 1]
       ELSE [nan |-> FALSE,
             num |-> IF signed /\ Head(v) = "-" THEN -magnitude ELSE magnitude,
             den |-> Pow10(m)]

\* !isNaN(n) && n >= -bound && n <= bound
InRange(x, bound) ==
    ~x.nan /\ x.num >= -bound * x.den /\ x.num <= bound * x.den

\* /^\d{4}-\d{4}-\d{4}-\d{3}[\dX]$/.test(v)
OrcidPattern(v) ==
    /\ Len(v) = 19
    /\ \A i \in 1..Len(v) :
         IF i \in {5, 10, 15} THEN v[i] = "-"
         ELSE IF i = 19 THEN v[i] \in Digits \cup {"X"}
         ELSE v[i] \in Digits

\* !isNaN(new Date(v).getTime()) on the two forms of string the model passes:
\* a date YYYY-MM-DD parses when its month and day exist in every month, and a
\* string that starts with a letter does not parse
DateParses(v) ==
    /\ Len(v) = 10
    /\ \A i \in 1..Len(v) : IF i \in {5, 8} THEN v[i] = "-" ELSE v[i] \in Digits
    /\ DigitsValue(SubSeq(v, 6, 7)) \in 1..12
    /\ DigitsValue(SubSeq(v, 9, 10)) \in 1..28

\* the four format rules (each has a pattern or a validate function)
FORMAT_RULES ==
    [f \in {"meta-operator-orcid", "meta-coverage-lat", "meta-coverage-lon",
            "meta-capture-date"} |->
       CASE f = "meta-operator-orcid" ->
              [kind |-> "pattern", test |-> "orcid",
               message |-> "ORCID must be in format 0000-0000-0000-000X"]
         [] f = "meta-coverage-lat" ->
              [kind |-> "validate", test |-> "latitude",
               message |-> "Latitude must be between -90 and 90"]
         [] f = "meta-coverage-lon" ->
              [kind |-> "validate", test |-> "longitude",
               message |-> "Longitude must be between -180 and 180"]
         [] f = "meta-capture-date" ->
              [kind |-> "validate", test |-> "date",
               message |-> "Invalid date format"]]

\* rule.pattern.test(value) / rule.validate(value)
RuleTest(rule, value) ==
    CASE rule.test = "orcid" -> OrcidPattern(value)
      [] rule.test = "latitude" -> InRange(parseFloat(value), 90)
      [] rule.test = "longitude" -> InRange(parseFloat(value), 180)
      [] rule.test = "date" -> DateParses(value)

IsEmptyWithoutSentinel(value) == value = Str_Empty

\* const isEmpty = !value || value === 'Not specified'
IsEmpty(value) == value = Str_Empty \/ value = Str_NotSpecified

\* the finding pushed for an empty field
PresenceFinding(fieldId, isRequired) ==
    [fieldId |-> fieldId, label |-> getFieldLabel(fieldId),
     severity |-> IF isRequired THEN "error" ELSE "warning",
     category |-> "presence",
     message |-> IF isRequired THEN "Required field is empty"
                 ELSE "Recommended field is empty"]

FormatValidPatternOnly(rule, value) ==
    IF rule.kind = "pattern" THEN RuleTest(rule, value) ELSE TRUE

\* let isValid = true; if (rule.pattern) ... else if (rule.validate) ...
FormatValid(rule, value) ==
    IF rule.kind \in {"pattern", "validate"} THEN RuleTest(rule, value) ELSE TRUE

FormatFinding(fieldId, rule) ==
    [fieldId |-> fieldId, label |-> getFieldLabel(fieldId), severity |-> "error",
     category |-> "format", message |-> rule.message]

\* the body of the loop over the fields, on the lists and the count so far
CheckFieldWithoutContinue(fieldId, metadata, required, formatRules, acc) ==
    LET value == Trim(resolveFieldValue(fieldId, metadata))
    IN IF IsEmpty(value)
       THEN [acc EXCEPT !.warnings = Append(@, PresenceFinding(fieldId, FALSE)),
                        !.passCount = @ + 1]
       ELSE [acc EXCEPT !.passCount = @ + 1]

CheckField(fieldId, metadata, required, formatRules, acc) ==
    LET value == Trim(resolveFieldValue(fieldId, metadata))
        isRequired == fieldId \in required
    IN IF IsEmpty(value)
       THEN IF isRequired
            THEN [acc EXCEPT !.errors = Append(@, PresenceFinding(fieldId, TRUE))]
            ELSE [acc EXCEPT !.warnings = Append(@, PresenceFinding(fieldId, FALSE))]
       ELSE IF fieldId \in DOMAIN formatRules
               /\ ~FormatValid(formatRules[fieldId], value)
            THEN [acc EXCEPT !.errors = Append(@, FormatFinding(fieldId, formatRules[fieldId]))]
            ELSE [acc EXCEPT !.passCount = @ + 1]

RECURSIVE CheckFields(_, _, _, _, _)
CheckFields(fields, metadata, required, formatRules, acc) ==
    IF fields = <<>> THEN acc
    ELSE CheckFields(Tail(fields), metadata, required, formatRules,
                     CheckField(Head(fields), metadata, required, formatRules, acc))

\* Math.round((passCount / totalChecked) * 100): the nearest integer, a half
\* rounded up
Score(passCount, totalChecked) ==
    IF totalChecked > 0 THEN (200 * passCount + totalChecked) \div (2 * totalChecked)
    ELSE 100

ComplianceStatusIgnoresWarnings(errors, warnings) ==
    IF Len(errors) > 0 THEN "warnings" ELSE "pass"

\* errors.length > 0 ? 'warnings' : warnings.length > 0 ? 'warnings' : 'pass'
ComplianceStatus(errors, warnings) ==
    IF Len(errors) > 0 THEN "warnings"
    ELSE IF Len(warnings) > 0 THEN "warnings" ELSE "pass"

validateSIP(metadata, profile, formatRules) ==
    LET fields == getFieldsForProfile(profile)
        done == CheckFields(fields, metadata, REQUIRED_FIELDS(profile), formatRules,
                            [errors |-> <<>>, warnings |-> <<>>, passCount |-> 0])
    IN [profile |-> profile,
        score |-> Score(done.passCount, Len(fields)),
        errors |-> done.errors,
        warnings |-> done.warnings,
        passCount |-> done.passCount,
        totalChecked |-> Len(fields),
        status |-> ComplianceStatus(done.errors, done.warnings)]

\* the metadata validated: seven fields take each of their strings, all the
\* other fields are filled alike or empty alike
SipMetadata ==
    { [f \in AllFields |->
         CASE f = "meta-title" -> title
           [] f = "meta-location" -> location
           [] f = "meta-capture-date" -> date
           [] f = "meta-operator-orcid" -> orcid
           [] f = "meta-coverage-lat" -> lat
           [] f = "meta-coverage-lon" -> lon
           [] f = "meta-archival-title" -> catalog
           [] OTHER -> rest] :
        title \in {Str_Empty, Str_Blank, Str_NotSpecified, Str_NotSpecifiedPadded,
                   Str_TextPadded},
        location \in {Str_Empty, Str_NotSpecified, Str_Text},
        date \in {Str_Empty, Str_Date, Str_NotADate},
        orcid \in {Str_Empty, Str_Orcid, Str_OrcidX, Str_OrcidInvalid},
        lat \in {Str_Empty, Str_Lat, Str_LatSouthPole, Str_LatTooLarge},
        lon \in {Str_Lon, Str_LonTooSmall},
        catalog \in {Str_Empty, Str_Text},
        rest \in {Str_Empty, Str_Text} }

NoSipResult ==
    [profile |-> "none", score |-> 0, errors |-> <<>>, warnings |-> <<>>,
     passCount |-> 0, totalChecked |-> 0, status |-> "none"]

notSip == <<alignVars, callerVars, stateVars, icpVars, shareVars, viewerVars>>

\* validateSIP(metadata, profile, FORMAT_RULES) returns
ValidateCall ==
    /\ sipPc = "ready"
    /\ sipResult' = validateSIP(sipMetadata, sipProfile, FORMAT_RULES)
    /\ sipPc' = "done"
    /\ UNCHANGED <<sipProfile, sipMetadata>>
    /\ UNCHANGED notSip

InitSip ==
    /\ AlignIdle /\ StateIdle /\ IcpIdle /\ ShareIdle /\ ViewerIdle
    /\ sipPc = "ready"
    /\ sipProfile \in Profiles
    /\ sipMetadata \in SipMetadata
    /\ sipResult = NoSipResult

NextSip == ValidateCall

SpecSip == InitSip /\ [][NextSip]_vars

----------------------------------------------------------------------------
(* Vocabulary of the validateSIP properties *)

SipReturned == sipPc = "done"

\* the strings of the model that are empty once trimmed, or 'Not specified'
EmptyStrings == {Str_Empty, Str_Blank, Str_NotSpecified, Str_NotSpecifiedPadded}

\* the strings of the model that fail the format rule of the field
InvalidStrings(fieldId) ==
    CASE fieldId = "meta-operator-orcid" -> {Str_OrcidInvalid}
      [] fieldId = "meta-coverage-lat" -> {Str_LatTooLarge}
      [] fieldId = "meta-coverage-lon" -> {Str_LonTooSmall}
      [] fieldId = "meta-capture-date" -> {Str_NotADate}
      [] OTHER -> {}

\* the findings of a list that are about the field
FindingsOn(fieldId, list) == { i \in 1..Len(list) : list[i].fieldId = fieldId }

ProfileFields == { getFieldsForProfile(sipProfile)[i] :
                     i \in 1..Len(getFieldsForProfile(sipProfile)) }

(* C17: every field of the profile whose value is empty after trimming, or  *)
(* is 'Not specified', has exactly one finding, of category 'presence': in  *)
(* errors, with severity error and message 'Required field is empty', if    *)
(* the field is required for the profile, and in warnings with severity     *)
(* warning if it is not.                                                    *)
C17_PresenceFindings ==
    SipReturned =>
      \A f \in ProfileFields :
        sipMetadata[f] \in EmptyStrings =>
          LET inErrors == FindingsOn(f, sipResult.errors)
              inWarnings == FindingsOn(f, sipResult.warnings)
          IN IF f \in REQUIRED_FIELDS(sipProfile)
             THEN /\ Cardinality(inErrors) = 1 /\ inWarnings = {}
                  /\ \A i \in inErrors :
                       /\ sipResult.errors[i].category = "presence"
                       /\ sipResult.errors[i].severity = "error"
                       /\ sipResult.errors[i].message = "Required field is empty"
             ELSE /\ Cardinality(inWarnings) = 1 /\ inErrors = {}
                  /\ \A i \in inWarnings :
                       /\ sipResult.warnings[i].category = "presence"
                       /\ sipResult.warnings[i].severity = "warning"

\* a required field that reads ' Not specified ' and a recommended field that
\* reads 'Not specified', all other fields filled and well formed
C17_Witness ==
    /\ SipReturned /\ sipProfile = "standard"
    /\ sipMetadata["meta-title"] = Str_NotSpecifiedPadded
    /\ sipMetadata["meta-location"] = Str_NotSpecified
    /\ Len(sipResult.errors) = 1 /\ Len(sipResult.warnings) = 1

(* C18: a field of the profile whose value is not empty and fails its       *)
(* format rule has exactly one finding: an error of category 'format' with  *)
(* the message of the rule; it is not counted in passCount (passCount is    *)
(* the number of fields that are neither empty nor ill-formed); and an      *)
(* empty field has no finding of category 'format'.                         *)
C18_FormatFindings ==
    SipReturned =>
      /\ \A f \in ProfileFields :
           LET inErrors == FindingsOn(f, sipResult.errors)
               inWarnings == FindingsOn(f, sipResult.warnings)
           IN /\ sipMetadata[f] \in InvalidStrings(f) =>
                   /\ Cardinality(inErrors) = 1 /\ inWarnings = {}
                   /\ \A i \in inErrors :
                        /\ sipResult.errors[i].category = "format"
                        /\ sipResult.errors[i].severity = "error"
                        /\ sipResult.errors[i].message = FORMAT_RULES[f].message
              /\ sipMetadata[f] \in EmptyStrings =>
                   \A i \in inErrors : sipResult.errors[i].category # "format"
      /\ sipResult.passCount =
           Cardinality({ f \in ProfileFields :
                           sipMetadata[f] \notin EmptyStrings \cup InvalidStrings(f) })

\* an ill-formed ORCID, latitude, longitude and (required) capture date at once
C18_Witness ==
    /\ SipReturned /\ sipProfile = "archival"
    /\ sipMetadata["meta-operator-orcid"] = Str_OrcidInvalid
    /\ sipMetadata["meta-coverage-lat"] = Str_LatTooLarge
    /\ sipMetadata["meta-coverage-lon"] = Str_LonTooSmall
    /\ sipMetadata["meta-capture-date"] = Str_NotADate
    /\ sipMetadata["meta-title"] = Str_TextPadded
    /\ Len(sipResult.errors) = 4

(* C19: status is 'pass' exactly when errors and warnings are both empty,   *)
(* and then passCount = totalChecked and score = 100.                       *)
C19_PassMeansClean ==
    SipReturned =>
      /\ sipResult.status = "pass" <=>
           (sipResult.errors = <<>> /\ sipResult.warnings = <<>>)
      /\ sipResult.status = "pass" =>
           /\ sipResult.passCount = sipResult.totalChecked
           /\ sipResult.score = 100

\* every field of the archival profile is filled and well formed
C19_Witness ==
    /\ SipReturned /\ sipProfile = "archival"
    /\ sipResult.status = "pass" /\ sipResult.totalChecked = 34

----------------------------------------------------------------------------
(* buildShareUrl (share-dialog): the query parameters of a share link.  A   *)
(* URLSearchParams object is the sequence of its [key, value] pairs.  A     *)
(* coordinate is an integer number of 1e-5 units, a formatted coordinate    *)
(* an integer number of 1e-4 units (a number and its string determine each  *)
(* other).                                                                  *)

\* no string / no object
Absent == [present |-> FALSE]

\* a URL of the state: null, the empty string or a string
Url(name) == [present |-> TRUE, text |-> name]

\* if (state.archiveUrl): a string that is not empty
Truthy(u) == u.present /\ u.text # ""

\* scale?: number
NoScaleField == [defined |-> FALSE, value |-> 0]
ScaleField(k) == [defined |-> TRUE, value |-> k]

ShareTransform(position, rotation, scale) ==
    [present |-> TRUE, position |-> position, rotation |-> rotation, scale |-> scale]

\* the transforms of a slot: none, the identity, a move without scale field,
\* a turn with scale 1.5, a move by less than the four decimals written
ShareTransforms ==
    { Absent,
      ShareTransform(<<0, 0, 0>>, <<0, 0, 0>>, ScaleField(100000)),
      ShareTransform(<<100000, 200000, 300000>>, <<0, 0, 0>>, NoScaleField),
      ShareTransform(<<0, 0, 0>>, <<0, 157080, 0>>, ScaleField(150000)),
      ShareTransform(<<4, -123456, 0>>, <<0, 0, -314159>>, ScaleField(100004)) }

\* UI_PRESETS: full, viewer, kiosk, minimal
UI_PRESETS ==
    { [displayMode |-> "both", controlsPanel |-> "full", toolbar |-> "show", sidebar |-> "closed"],
      [displayMode |-> "both", controlsPanel |-> "none", toolbar |-> "hide", sidebar |-> "view"],
      [displayMode |-> "both", controlsPanel |-> "none", toolbar |-> "hide", sidebar |-> "closed"],
      [displayMode |-> "both", controlsPanel |-> "none", toolbar |-> "show", sidebar |-> "closed"] }

\* n.toFixed(4) read back by parseFloat: the nearest multiple of 1e-4 (the
\* coordinates of the model are never half-way between two)
Fixed4(x) == IF x >= 0 THEN (x + 5) \div 10 ELSE -((-x + 5) \div 10)

\* arr.map(n => parseFloat(n.toFixed(4))).join(',')
formatVec3(arr) == [i \in 1..3 |-> Fixed4(arr[i])]

\* URLSearchParams.set(key, value): the value of the first pair of that key
\* is replaced, a new key is appended
RECURSIVE ParamsSet(_, _, _)
ParamsSet(params, key, value) ==
    IF params = <<>> THEN << <<key, value>> >>
    ELSE IF Head(params)[1] = key THEN << <<key, value>> >> \o Tail(params)
    ELSE <<Head(params)>> \o ParamsSet(Tail(params), key, value)

PositionKey(slot) == CASE slot = "splat" -> "sp" [] slot = "model" -> "mp" [] slot = "pointcloud" -> "pp"
RotationKey(slot) == CASE slot = "splat" -> "sr" [] slot = "model" -> "mr" [] slot = "pointcloud" -> "pr"
ScaleKey(slot) == CASE slot = "splat" -> "ss" [] slot = "model" -> "ms" [] slot = "pointcloud" -> "ps"

NonZeroFirstOnly(v) == v[1] # 0

\* pos[0] !== 0 || pos[1] !== 0 || pos[2] !== 0
NonZero(v) == v[1] # 0 \/ v[2] # 0 \/ v[3] # 0

\* the block of addAlignmentParams for one slot
SlotAlignmentParams(params, slot, t) ==
    IF ~t.present THEN params
    ELSE LET withPos == IF NonZero(t.position)
                        THEN ParamsSet(params, PositionKey(slot), formatVec3(t.position))
                        ELSE params
             withRot == IF NonZero(t.rotation)
                        THEN ParamsSet(withPos, RotationKey(slot), formatVec3(t.rotation))
                        ELSE withPos
         IN IF t.scale.defined /\ t.scale.value # 100000
            THEN ParamsSet(withRot, ScaleKey(slot), Fixed4(t.scale.value))
            ELSE withRot

addAlignmentParams(params, state) ==
    SlotAlignmentParams(
        SlotAlignmentParams(
            SlotAlignmentParams(params, "splat", state.splatTransform),
            "model", state.modelTransform),
        "pointcloud", state.pointcloudTransform)

\* the content parameters: the archive, or else the assets
ContentParams(state) ==
    IF Truthy(state.archiveUrl)
    THEN ParamsSet(<<>>, "archive", state.archiveUrl.text)
    ELSE LET s == IF Truthy(state.splatUrl)
                  THEN ParamsSet(<<>>, "splat", state.splatUrl.text) ELSE <<>>
             m == IF Truthy(state.modelUrl)
                  THEN ParamsSet(s, "model", state.modelUrl.text) ELSE s
         IN IF Truthy(state.pointcloudUrl)
            THEN ParamsSet(m, "pointcloud", state.pointcloudUrl.text) ELSE m

\* mode always, controls / toolbar / sidebar when not the default
OptionParams(params, options) ==
    LET mode == ParamsSet(params, "mode", options.displayMode)
        controls == IF options.controlsPanel # "full"
                    THEN ParamsSet(mode, "controls", options.controlsPanel) ELSE mode
        toolbar == IF options.toolbar # "show"
                   THEN ParamsSet(controls, "toolbar", options.toolbar) ELSE controls
    IN IF options.sidebar # "closed"
       THEN ParamsSet(toolbar, "sidebar", options.sidebar) ELSE toolbar

AlignmentWantedWithArchive(state, include) == include

\* if (includeAlignment && !state.archiveUrl)
AlignmentWanted(state, include) == include /\ ~Truthy(state.archiveUrl)

\* baseUrl + '?' + params.toString(), as the base and the parameters
buildShareUrl(baseUrl, state, options, include) ==
    LET params == OptionParams(ContentParams(state), options)
    IN [base |-> baseUrl,
        params |-> IF AlignmentWanted(state, include)
                   THEN addAlignmentParams(params, state) ELSE params]

\* the states a link is built from
ShareStates ==
    { [archiveUrl |-> a, splatUrl |-> s, modelUrl |-> m, pointcloudUrl |-> p,
       splatTransform |-> st, modelTransform |-> mt, pointcloudTransform |-> pt] :
        a \in {Absent, Url(""), Url("https://cdn.example.com/scene.a3z")},
        s \in {Absent, Url("https://cdn.example.com/model.splat")},
        m \in {Absent, Url("https://cdn.example.com/model.glb")},
        p \in {Absent, Url("https://cdn.example.com/cloud.e57")},
        st \in ShareTransforms, mt \in ShareTransforms, pt \in ShareTransforms }

NoUrl == [base |-> "", params |-> <<>>]

notShare == <<alignVars, callerVars, stateVars, icpVars, sipVars, viewerVars>>

\* buildShareUrl(baseUrl, state, options, includeAlignment) returns
BuildShareUrlCall ==
    /\ sharePc = "ready"
    /\ shareUrl' = buildShareUrl("https://example.com/viewer", shareState,
                                 shareOptions, includeAlignment)
    /\ sharePc' = "done"
    /\ UNCHANGED <<shareState, shareOptions, includeAlignment>>
    /\ UNCHANGED notShare

InitShare ==
    /\ AlignIdle /\ StateIdle /\ IcpIdle /\ SipIdle /\ ViewerIdle
    /\ sharePc = "ready"
    /\ shareState \in ShareStates
    /\ shareOptions \in UI_PRESETS
    /\ includeAlignment \in BOOLEAN
    /\ shareUrl = NoUrl

NextShare == BuildShareUrlCall

SpecShare == InitShare /\ [][NextShare]_vars

ShareReturned == sharePc = "done"

\* the keys of the parameters of the link
ShareKeys == { shareUrl.params[i][1] : i \in 1..Len(shareUrl.params) }

ContentKeys == {"splat", "model", "pointcloud"}

AlignmentKeys == {"sp", "sr", "ss", "mp", "mr", "ms", "pp", "pr", "ps"}

(* C20: when state.archiveUrl is set (a non-empty string) the link has the  *)
(* archive parameter, with that URL, and none of splat, model, pointcloud   *)
(* nor any of sp/sr/ss, mp/mr/ms, pp/pr/ps, whatever includeAlignment is;   *)
(* and a link has an alignment parameter only if includeAlignment is true   *)
(* and no archive URL is set.                                               *)
C20_ArchiveTakesPrecedence ==
    ShareReturned =>
      /\ Truthy(shareState.archiveUrl) =>
           /\ \E i \in 1..Len(shareUrl.params) :
                shareUrl.params[i] = <<"archive", shareState.archiveUrl.text>>
           /\ ShareKeys \cap (ContentKeys \cup AlignmentKeys) = {}
      /\ ShareKeys \cap AlignmentKeys # {} =>
           includeAlignment /\ ~Truthy(shareState.archiveUrl)

\* an archive URL next to asset URLs and transforms, alignment asked for
C20_Witness ==
    /\ ShareReturned /\ includeAlignment
    /\ Truthy(shareState.archiveUrl) /\ Truthy(shareState.splatUrl)
    /\ shareState.splatTransform.present /\ NonZero(shareState.splatTransform.position)
    /\ shareState.modelTransform.present /\ shareState.modelTransform.scale.defined
    /\ "archive" \in ShareKeys

----------------------------------------------------------------------------
(* addAlignmentParams: what a link built with alignment holds per slot *)

\* the transform of the state a slot's block reads
SlotTransform(state, slot) ==
    CASE slot = "splat" -> state.splatTransform
      [] slot = "model" -> state.modelTransform
      [] slot = "pointcloud" -> state.pointcloudTransform

\* params.get(key) of the link: the values stored under the key
ShareValues(key) ==
    { shareUrl.params[i][2] : i \in { j \in 1..Len(shareUrl.params) :
                                        shareUrl.params[j][1] = key } }

\* addAlignmentParams ran on the parameters of the link
AlignmentAdded == ShareReturned /\ AlignmentWanted(shareState, includeAlignment)

(* C21: for each of the slots splat, model and pointcloud,                  *)
(* addAlignmentParams writes the position parameter (sp/mp/pp) exactly when *)
(* the slot has a transform with a non-zero position component, the         *)
(* rotation parameter (sr/mr/pr) exactly when it has one with a non-zero    *)
(* rotation component, the scale parameter (ss/ms/ps) exactly when it has   *)
(* one whose scale is defined and is not 1; a slot without a transform adds *)
(* none of its three parameters; and what is written under a slot's key is  *)
(* the formatted value of that slot's own transform.                        *)
C21_AlignmentParamsPerSlot ==
    AlignmentAdded =>
      \A slot \in Slots :
        LET t == SlotTransform(shareState, slot)
        IN /\ PositionKey(slot) \in ShareKeys <=>
                t.present /\ \E i \in 1..3 : t.position[i] # 0
           /\ RotationKey(slot) \in ShareKeys <=>
                t.present /\ \E i \in 1..3 : t.rotation[i] # 0
           /\ ScaleKey(slot) \in ShareKeys <=>
                t.present /\ t.scale.defined /\ t.scale.value # 100000
           /\ ~t.present =>
                {PositionKey(slot), RotationKey(slot), ScaleKey(slot)} \cap ShareKeys = {}
           /\ PositionKey(slot) \in ShareKeys =>
                ShareValues(PositionKey(slot)) = {formatVec3(t.position)}
           /\ RotationKey(slot) \in ShareKeys =>
                ShareValues(RotationKey(slot)) = {formatVec3(t.rotation)}
           /\ ScaleKey(slot) \in ShareKeys =>
                ShareValues(ScaleKey(slot)) = {Fixed4(t.scale.value)}

\* a splat without transform, a model turned about y only with scale 1.5, a
\* point cloud moved with no scale field
C21_Witness ==
    /\ AlignmentAdded
    /\ ~shareState.splatTransform.present
    /\ shareState.modelTransform.present
    /\ shareState.modelTransform.rotation = <<0, 157080, 0>>
    /\ shareState.pointcloudTransform.present
    /\ ~shareState.pointcloudTransform.scale.defined
    /\ ShareKeys \cap AlignmentKeys = {"mr", "ms", "pp"}

----------------------------------------------------------------------------
(* CrossSectionTool (kiosk-viewer.js 1012-1213).  A mesh or points object   *)
(* is identified with its material; a material under two groups is a        *)
(* material shared by two objects.  The plane itself (position, normal)     *)
(* does not bear on which materials hold it and is left out.                *)

\* the materials of the scene
Mats == 1..MaxMats

\* what the tool leaves alone
notCs == <<engineVars, annVars, fetchVars, bootVars, logVars, bgVars>>

\* the materials _applyToObject reaches from the three groups (a null
\* _stlGroup is a group that stays empty)
Walked == UNION { groups[g] : g \in Groups }

\* start(center)
Start ==
    /\ csActive' = TRUE
    /\ helperVisible' = TRUE
    /\ planeMeshVisible' = TRUE
    \* _applyClipping(): _trackedMaterials = [], then every material reached
    \* gets clippingPlanes = [this._plane] and is pushed
    /\ tracked' = Walked
    /\ clipped' = clipped \cup Walked
    /\ given' = given \cup Walked
    /\ csLast' = "start"
    /\ UNCHANGED <<orbitControls, groups>>
    /\ UNCHANGED notCs

\* stop()
Stop ==
    /\ csActive' = FALSE
    /\ helperVisible' = FALSE
    /\ planeMeshVisible' = FALSE
    \* _removeClipping(): clippingPlanes = [] for the tracked materials
    /\ clipped' = clipped \ tracked
    /\ tracked' = {}
    /\ orbitControls' = IF orbitControls.present
                        THEN [orbitControls EXCEPT !.enabled = TRUE]
                        ELSE orbitControls
    /\ csLast' = "stop"
    /\ UNCHANGED <<groups, given>>
    /\ UNCHANGED notCs

\* reapplyClipping()
ReapplyClipping ==
    /\ IF ~csActive
       THEN UNCHANGED <<clipped, tracked, given>>
       ELSE /\ tracked' = Walked
            /\ clipped' = (clipped \ tracked) \cup Walked
            /\ given' = given \cup Walked
    /\ csLast' = "reapplyClipping"
    /\ UNCHANGED <<csActive, helperVisible, planeMeshVisible, orbitControls, groups>>
    /\ UNCHANGED notCs

\* the 'dragging-changed' listener of the plane gizmo
DraggingChanged ==
    /\ orbitControls.present
    /\ \E value \in BOOLEAN :
         orbitControls' = [orbitControls EXCEPT !.enabled = ~value]
    /\ csLast' = "dragging-changed"
    /\ UNCHANGED <<csActive, helperVisible, planeMeshVisible, groups, clipped, tracked, given>>
    /\ UNCHANGED notCs

\* the application adds an object with material m under a group
AddAsset ==
    /\ \E g \in Groups, m \in Mats :
         /\ m \notin groups[g]
         /\ groups' = [groups EXCEPT ![g] = @ \cup {m}]
    /\ csLast' = "add"
    /\ UNCHANGED <<csActive, helperVisible, planeMeshVisible, orbitControls, clipped, tracked, given>>
    /\ UNCHANGED notCs

\* the application removes an object from a group
RemoveAsset ==
    /\ \E g \in Groups, m \in Mats :
         /\ m \in groups[g]
         /\ groups' = [groups EXCEPT ![g] = @ \ {m}]
    /\ csLast' = "remove"
    /\ UNCHANGED <<csActive, helperVisible, planeMeshVisible, orbitControls, clipped, tracked, given>>
    /\ UNCHANGED notCs

\* after the constructor: inactive, helper and plane mesh hidden, no material
\* touched; the groups hold whatever the application has loaded
InitCs ==
    /\ EngineIdle /\ AnnIdle /\ FetchIdle /\ BootIdle /\ LogIdle /\ BgIdle
    /\ csActive = FALSE /\ helperVisible = FALSE /\ planeMeshVisible = FALSE
    /\ orbitControls \in {NoControls, [present |-> TRUE, enabled |-> TRUE]}
    /\ groups \in [Groups -> SUBSET Mats]
    /\ clipped = {} /\ tracked = {} /\ given = {}
    /\ csLast = "none"

NextCs ==
    \/ Start
    \/ Stop
    \/ ReapplyClipping
    \/ DraggingChanged
    \/ AddAsset
    \/ RemoveAsset

SpecCs == InitCs /\ [][NextCs]_vars

(* C22: after stop() returns the tool is inactive, the gizmo and the plane  *)
(* mesh are hidden, the orbit controls are enabled, and no material that    *)
(* was ever given the tool's plane still lists it in clippingPlanes, after  *)
(* any sequence of start, stop and reapplyClipping calls interleaved with   *)
(* assets being added to and removed from the groups.                       *)
C22_StopRemovesClipping ==
    csLast = "stop" =>
      /\ ~csActive /\ ~helperVisible /\ ~planeMeshVisible
      /\ orbitControls.present => orbitControls.enabled
      /\ given \cap clipped = {}

----------------------------------------------------------------------------
(* The annotation controller (logger.ts 240-682): the module variable       *)
(* currentPopupAnnotationId and the functions that write it.  The           *)
(* annotation system and the popup functions are dependencies handed in by  *)
(* the caller; they are modelled by what the controller's code and          *)
(* comments say of them.                                                    *)

\* the ids an annotation can have
Ids == 1..MaxAnnos

\* what the annotation controller leaves alone
notAnn == <<engineVars, csVars, fetchVars, bootVars, logVars, bgVars>>

\* deps.showAnnotationPopup(annotation): shows the popup of the annotation
\* and returns "the ID of the annotation whose popup is currently shown"
showAnnotationPopup(annotation) == annotation

IsOpenForAny(annotation) == currentPopupAnnotationId # NoId

\* if (currentPopupAnnotationId === annotation.id)
IsOpenFor(annotation) == currentPopupAnnotationId = annotation

\* the toggle branch of onAnnotationSelected and of the chip click handler
ClosePopup ==
    /\ popupVisible' = FALSE
    /\ currentPopupAnnotationId' = NoId
    /\ selectedAnnotation' = NoId

\* onAnnotationSelected(annotation, deps), called back by the annotation
\* system after it selected the annotation
onAnnotationSelected(annotation) ==
    IF IsOpenFor(annotation)
    THEN ClosePopup
    ELSE /\ selectedAnnotation' = annotation
         /\ popupVisible' = TRUE
         /\ currentPopupAnnotationId' = showAnnotationPopup(annotation)

\* a marker of the scene is clicked
SelectAnnotation ==
    \E a \in annotations :
      /\ onAnnotationSelected(a)
      /\ annLast' = [op |-> "select", id |-> a, before |-> currentPopupAnnotationId]
      /\ UNCHANGED <<annotations, pending>>
      /\ UNCHANGED notAnn

\* the click handler of a chip of the annotation bar
ChipClick ==
    \E a \in annotations :
      /\ IF IsOpenFor(a)
         THEN ClosePopup
         ELSE onAnnotationSelected(a)      \* annotationSystem.goToAnnotation(anno.id)
      /\ annLast' = [op |-> "chip", id |-> a, before |-> currentPopupAnnotationId]
      /\ UNCHANGED <<annotations, pending>>
      /\ UNCHANGED notAnn

\* dismissPopup(deps)
DismissPopup ==
    /\ popupVisible' = FALSE
    /\ currentPopupAnnotationId' = NoId
    /\ annLast' = [op |-> "dismiss", id |-> NoId, before |-> currentPopupAnnotationId]
    /\ UNCHANGED <<annotations, selectedAnnotation, pending>>
    /\ UNCHANGED notAnn

\* onAnnotationPlaced: the panel opens for a new annotation
PlaceAnnotation ==
    /\ ~pending
    /\ pending' = TRUE
    /\ annLast' = [op |-> "place", id |-> NoId, before |-> currentPopupAnnotationId]
    /\ UNCHANGED <<annotations, selectedAnnotation, currentPopupAnnotationId, popupVisible>>
    /\ UNCHANGED notAnn

\* saveAnnotation(deps): confirmAnnotation returns the new annotation, or
\* nothing (no pending annotation, or an id that is taken)
SaveAnnotation ==
    /\ \/ /\ pending
          /\ \E a \in Ids \ annotations :
               /\ annotations' = annotations \cup {a}
               /\ annLast' = [op |-> "save", id |-> a, before |-> currentPopupAnnotationId]
       \/ /\ annotations' = annotations
          /\ annLast' = [op |-> "save", id |-> NoId, before |-> currentPopupAnnotationId]
    /\ pending' = FALSE
    /\ UNCHANGED <<selectedAnnotation, currentPopupAnnotationId, popupVisible>>
    /\ UNCHANGED notAnn

\* cancelAnnotation(deps)
CancelAnnotation ==
    /\ pending' = FALSE
    /\ annLast' = [op |-> "cancel", id |-> NoId, before |-> currentPopupAnnotationId]
    /\ UNCHANGED <<annotations, selectedAnnotation, currentPopupAnnotationId, popupVisible>>
    /\ UNCHANGED notAnn

\* deleteSelectedAnnotation(deps): nothing without a selection or when the
\* user declines the confirm() dialog
DeleteSelectedAnnotation ==
    /\ selectedAnnotation # NoId
    /\ \E confirmed \in BOOLEAN :
         IF confirmed
         THEN /\ annotations' = annotations \ {selectedAnnotation}
              /\ selectedAnnotation' = NoId
         ELSE UNCHANGED <<annotations, selectedAnnotation>>
    /\ annLast' = [op |-> "delete", id |-> selectedAnnotation,
                   before |-> currentPopupAnnotationId]
    /\ UNCHANGED <<pending, currentPopupAnnotationId, popupVisible>>
    /\ UNCHANGED notAnn

\* loadAnnotationsFromArchive(annotations, deps): setAnnotations replaces the
\* annotations of the system
LoadAnnotationsFromArchive ==
    /\ \E loaded \in SUBSET Ids :
         /\ annotations' = loaded
         /\ annLast' = [op |-> "load", id |-> NoId, before |-> currentPopupAnnotationId]
    /\ selectedAnnotation' = NoId
    /\ UNCHANGED <<pending, currentPopupAnnotationId, popupVisible>>
    /\ UNCHANGED notAnn

InitAnn == EngineIdle /\ CsIdle /\ AnnIdle /\ FetchIdle /\ BootIdle /\ LogIdle /\ BgIdle

NextAnn ==
    \/ SelectAnnotation
    \/ ChipClick
    \/ DismissPopup
    \/ PlaceAnnotation
    \/ SaveAnnotation
    \/ CancelAnnotation
    \/ DeleteSelectedAnnotation
    \/ LoadAnnotationsFromArchive

SpecAnn == InitAnn /\ [][NextAnn]_vars

(* C23: onAnnotationSelected for the annotation whose popup is open hides   *)
(* the popup, sets the current popup id to null and clears                  *)
(* annotationSystem.selectedAnnotation (the chip click handler does the     *)
(* same); for any other annotation it sets the current popup id to the id   *)
(* returned by showAnnotationPopup; dismissPopup leaves the current popup   *)
(* id null; and selecting the same annotation twice in a row, starting      *)
(* with no popup, ends with no popup.                                       *)
C23_PopupToggle ==
    /\ [](annLast.op \in {"select", "chip"} /\ annLast.before = annLast.id =>
            /\ ~popupVisible
            /\ currentPopupAnnotationId = NoId
            /\ selectedAnnotation = NoId)
    /\ [](annLast.op \in {"select", "chip"} /\ annLast.before # annLast.id =>
            /\ popupVisible
            /\ currentPopupAnnotationId = annLast.id)
    /\ [](annLast.op = "dismiss" => currentPopupAnnotationId = NoId /\ ~popupVisible)
    /\ [][/\ annLast.op = "select" /\ annLast.before = NoId
          /\ annLast'.op = "select" /\ annLast'.id = annLast.id
          => currentPopupAnnotationId' = NoId /\ ~popupVisible']_vars

\* annotation 2 was selected a second time, with its popup open, next to
\* another annotation
C23_Witness ==
    /\ annLast = [op |-> "select", id |-> 2, before |-> 2]
    /\ currentPopupAnnotationId = NoId
    /\ annotations = {1, 2}

(* C29: whenever getCurrentPopupAnnotationId() is not null it is the id of  *)
(* an annotation that exists in the annotation system, after any sequence   *)
(* of select, dismiss, save, cancel, delete-selected and load-from-archive  *)
(* operations.                                                              *)
C29_PopupIdExists ==
    currentPopupAnnotationId # NoId => currentPopupAnnotationId \in annotations

----------------------------------------------------------------------------
(* fetchDep (kiosk-viewer.js 36-47, part_003 44-55) and fetchText           *)
(* (part_002 115-126): the same retry loop three times.  One call, step by  *)
(* step: fetch(url) settles, the body is read, the catch block runs.        *)

\* for (let attempt = 0; attempt < 2; attempt++)
MaxAttempts == 2

\* the URLs fetched (three of CDN_DEPS)
FetchUrls == {"three", "spark", "fflate"}

\* the HTTP statuses a response of the model has
Statuses == {200, 404, 503}

\* resp.ok
Ok(status) == status >= 200 /\ status <= 299

\* what the fetch and the loop leave alone
notFetch == <<engineVars, csVars, annVars, bootVars, logVars, bgVars>>

\* await fetch(url): the promise rejects (network error) or resolves with a
\* response
FetchSettles ==
    /\ fetchPc = "fetch"
    /\ \/ /\ attempts' = Append(attempts, [what |-> "rejected", status |-> 0])
          /\ err' = [attempt |-> attempt, what |-> "rejected"]
          /\ fetchPc' = "caught"
       \/ \E status \in Statuses :
            /\ attempts' = Append(attempts, [what |-> "response", status |-> status])
            /\ err' = err
            /\ fetchPc' = "response"
    /\ UNCHANGED <<fetchUrl, attempt, delays, fetchOut>>
    /\ UNCHANGED notFetch

\* if (!resp.ok) throw new Error(...); return await resp.text();
ReadResponse ==
    /\ fetchPc = "response"
    /\ LET resp == attempts[Len(attempts)]
       IN IF ~Ok(resp.status)
          THEN /\ err' = [attempt |-> attempt, what |-> "http"]
               /\ fetchPc' = "caught"
               /\ UNCHANGED <<attempts, fetchOut>>
          ELSE \/ /\ fetchOut' = [kind |-> "text", attempt |-> attempt]
                  /\ fetchPc' = "returned"
                  /\ UNCHANGED <<attempts, err>>
               \/ \* the body cannot be read: resp.text() rejects
                  /\ attempts' = [attempts EXCEPT ![Len(attempts)].what = "body failed"]
                  /\ err' = [attempt |-> attempt, what |-> "body"]
                  /\ fetchPc' = "caught"
                  /\ UNCHANGED fetchOut
    /\ UNCHANGED <<fetchUrl, attempt, delays>>
    /\ UNCHANGED notFetch

LastAttemptNever(a) == FALSE

\* if (attempt === 1)
LastAttempt(a) == a = 1

\* catch (err) { if (attempt === 1) throw err; await new Promise(r =>
\* setTimeout(r, 1000)); } and the loop header: attempt++, attempt < 2; a
\* loop that ends returns undefined
Caught ==
    /\ fetchPc = "caught"
    /\ IF LastAttempt(attempt)
       THEN /\ fetchOut' = [kind |-> "error", attempt |-> err.attempt, what |-> err.what]
            /\ fetchPc' = "threw"
            /\ UNCHANGED <<attempt, delays>>
       ELSE /\ delays' = delays + 1
            /\ attempt' = attempt + 1
            /\ IF attempt + 1 < MaxAttempts
               THEN fetchPc' = "fetch" /\ fetchOut' = fetchOut
               ELSE fetchPc' = "returned" /\ fetchOut' = [kind |-> "undefined"]
    /\ UNCHANGED <<fetchUrl, attempts, err>>
    /\ UNCHANGED notFetch

\* fetchDep(url) is called
InitFetch ==
    /\ EngineIdle /\ CsIdle /\ AnnIdle /\ BootIdle /\ LogIdle /\ BgIdle
    /\ fetchPc = "fetch"
    /\ fetchUrl \in FetchUrls
    /\ attempt = 0 /\ attempts = <<>> /\ delays = 0
    /\ err = NoErr /\ fetchOut = NoFetchOut

NextFetch ==
    \/ FetchSettles
    \/ ReadResponse
    \/ Caught

SpecFetch == InitFetch /\ [][NextFetch]_vars

FetchEnded == fetchPc \in {"returned", "threw"}

\* the attempt got a response with an OK status
GotOk(a) == a.what \in {"response", "body failed"} /\ Ok(a.status)

\* the attempt came to a text
Succeeded(a) == a.what = "response" /\ Ok(a.status)

(* C24 as stated: at most two fetch attempts; a first attempt that returns  *)
(* an OK response yields its text with no second attempt; a first attempt   *)
(* that throws or returns a non-OK status is retried exactly once after a   *)
(* delay; if the second attempt also fails its error is propagated.         *)
C24_Original ==
    /\ Len(attempts) <= 2
    /\ FetchEnded =>
         /\ GotOk(attempts[1]) =>
              Len(attempts) = 1 /\ fetchOut = [kind |-> "text", attempt |-> 0]
         /\ ~GotOk(attempts[1]) => Len(attempts) = 2 /\ delays = 1
         /\ Len(attempts) = 2 /\ ~Succeeded(attempts[2]) =>
              fetchOut.kind = "error" /\ fetchOut.attempt = 1
         /\ fetchOut.kind # "undefined"

(* C24, amended: at most two fetch attempts; a first attempt whose response *)
(* is OK and whose body is read yields that text with no second attempt; a  *)
(* first attempt that throws, returns a non-OK status or fails while the    *)
(* body is read is retried exactly once, after one delay; a second attempt  *)
(* that succeeds yields its text, and if it fails its own error is thrown;  *)
(* the call never returns undefined.                                        *)
C24_OneRetry ==
    /\ Len(attempts) <= 2
    /\ delays <= 1
    /\ FetchEnded =>
         /\ Succeeded(attempts[1]) =>
              Len(attempts) = 1 /\ delays = 0
              /\ fetchOut = [kind |-> "text", attempt |-> 0]
         /\ ~Succeeded(attempts[1]) => Len(attempts) = 2 /\ delays = 1
         /\ Len(attempts) = 2 /\ Succeeded(attempts[2]) =>
              fetchOut = [kind |-> "text", attempt |-> 1]
         /\ Len(attempts) = 2 /\ ~Succeeded(attempts[2]) =>
              /\ fetchPc = "threw"
              /\ fetchOut.kind = "error" /\ fetchOut.attempt = 1
         /\ fetchOut.kind \in {"text", "error"}
         /\ fetchPc = "returned" <=> fetchOut.kind = "text"

\* an OK first response whose body could not be read, then a 503: the error
\* of the second attempt is thrown
C24_Witness ==
    /\ fetchPc = "threw"
    /\ Len(attempts) = 2
    /\ attempts[1] = [what |-> "body failed", status |-> 200]
    /\ attempts[2] = [what |-> "response", status |-> 503]
    /\ fetchOut = [kind |-> "error", attempt |-> 1, what |-> "http"]

----------------------------------------------------------------------------
(* KIOSK_BOOTSTRAP_JS (part_003 268-567) and waitForArchiveFile (569-617):  *)
(* the async bootstrap function of the generated viewer, one action per     *)
(* stretch of code between two awaits.  An exception anywhere inside the    *)
(* try block ends in the catch block, which writes 'Error: ...' into the    *)
(* status text.                                                             *)

\* what the bootstrap leaves alone
notBoot == <<engineVars, csVars, annVars, fetchVars, logVars, bgVars>>

\* catch (err) { setStatus('Error: ' + err.message); ... }
Fatal ==
    /\ statusText' = "Error"
    /\ bootPc' = "failed"

\* phase 1: the embedded dependencies are decoded and imported
LoadDeps ==
    /\ bootPc = "deps"
    /\ \/ /\ bootPc' = "fetch"
          /\ statusText' = "Loading archive..."
       \/ Fatal
    /\ UNCHANGED <<fetchHow, archiveBytes, pickerShown, loadingShown, fileSelected,
                   viewerShown, nEntries, entryIdx, hasContent>>
    /\ UNCHANGED notBoot

\* phase 2: fetch('./' + __ARCHIVE_FILENAME__) settles; without bytes the
\* loading screen is hidden and waitForArchiveFile() shows the picker
FetchArchive ==
    /\ bootPc = "fetch"
    /\ \E settled \in {"ok", "not ok", "threw", "body failed"} :
         /\ fetchHow' = settled
         /\ IF settled = "ok"
            THEN /\ archiveBytes' = "fetch"
                 /\ statusText' = "Extracting assets..."
                 /\ bootPc' = "extract"
                 /\ UNCHANGED <<pickerShown, loadingShown>>
            ELSE /\ loadingShown' = FALSE
                 /\ pickerShown' = TRUE
                 /\ bootPc' = "picker"
                 /\ UNCHANGED <<archiveBytes, statusText>>
    /\ UNCHANGED <<fileSelected, viewerShown, nEntries, entryIdx, hasContent>>
    /\ UNCHANGED notBoot

\* the user picks a file with the button or drops one: handleFile(file)
\* hides the picker and starts a FileReader
SelectFile ==
    /\ bootPc = "picker"
    /\ pickerShown' = FALSE
    /\ fileSelected' = TRUE
    /\ bootPc' = "reading"
    /\ UNCHANGED <<fetchHow, archiveBytes, loadingShown, statusText, viewerShown,
                   nEntries, entryIdx, hasContent>>
    /\ UNCHANGED notBoot

\* the FileReader failed: only reader.onload is set, so nothing runs
ReaderError ==
    /\ bootPc' = "read failed"
    /\ UNCHANGED <<archiveBytes, loadingShown, statusText>>

\* reader.readAsArrayBuffer(file) finishes: onload resolves the promise and
\* the bootstrap goes on into phase 3; or the read fails
ReaderSettles ==
    /\ bootPc = "reading"
    /\ \/ /\ archiveBytes' = "file"
          /\ loadingShown' = TRUE
          /\ statusText' = "Extracting assets..."
          /\ bootPc' = "extract"
       \/ ReaderError
    /\ UNCHANGED <<fetchHow, pickerShown, fileSelected, viewerShown,
                   nEntries, entryIdx, hasContent>>
    /\ UNCHANGED notBoot

\* the document-level drop listener stays: a file dropped anywhere on the
\* page after a failed read is handed to handleFile again
DropAgain ==
    /\ bootPc = "read failed"
    /\ bootPc' = "reading"
    /\ UNCHANGED <<fetchHow, archiveBytes, pickerShown, loadingShown, fileSelected,
                   statusText, viewerShown, nEntries, entryIdx, hasContent>>
    /\ UNCHANGED notBoot

\* phase 3: unzip (async, then sync), the manifest of the archive or the
\* embedded one; a broken archive or no manifest throws
Extract ==
    /\ bootPc = "extract"
    /\ \/ \E k \in 0..MaxEntries :
            /\ nEntries' = k
            /\ statusText' = "Loading 3D content..."
            /\ bootPc' = "assets"
       \/ Fatal /\ UNCHANGED nEntries
    /\ entryIdx' = 0
    /\ UNCHANGED <<fetchHow, archiveBytes, pickerShown, loadingShown, fileSelected,
                   viewerShown, hasContent>>
    /\ UNCHANGED notBoot

\* phase 4, one round of the asset loop: an asset is loaded, or skipped, or
\* its loader fails and the error is caught inside the loop
LoadAsset ==
    /\ bootPc = "assets" /\ entryIdx < nEntries
    /\ entryIdx' = entryIdx + 1
    /\ \E loaded \in BOOLEAN : hasContent' = (hasContent \/ loaded)
    /\ UNCHANGED <<bootPc, fetchHow, archiveBytes, pickerShown, loadingShown,
                   fileSelected, statusText, viewerShown, nEntries>>
    /\ UNCHANGED notBoot

\* after the loop: annotations, info panel, the viewer is shown
ShowViewer ==
    /\ bootPc = "assets" /\ entryIdx = nEntries
    /\ loadingShown' = FALSE
    /\ viewerShown' = TRUE
    /\ bootPc' = "viewer"
    /\ UNCHANGED <<fetchHow, archiveBytes, pickerShown, fileSelected, statusText,
                   nEntries, entryIdx, hasContent>>
    /\ UNCHANGED notBoot

\* the script starts: setStatus('Loading libraries...')
InitBoot ==
    /\ EngineIdle /\ CsIdle /\ AnnIdle /\ FetchIdle /\ LogIdle /\ BgIdle
    /\ bootPc = "deps" /\ fetchHow = "none" /\ archiveBytes = "none"
    /\ pickerShown = FALSE /\ loadingShown = TRUE /\ fileSelected = FALSE
    /\ statusText = "Loading libraries..." /\ viewerShown = FALSE
    /\ nEntries = 0 /\ entryIdx = 0 /\ hasContent = FALSE

NextBoot ==
    \/ LoadDeps
    \/ FetchArchive
    \/ SelectFile
    \/ ReaderSettles
    \/ DropAgain
    \/ Extract
    \/ LoadAsset
    \/ ShowViewer

\* the browser runs every pending continuation and settles every request;
\* nothing makes the user pick or drop a file
SpecBoot ==
    /\ InitBoot /\ [][NextBoot]_vars
    /\ WF_vars(LoadDeps) /\ WF_vars(FetchArchive) /\ WF_vars(ReaderSettles)
    /\ WF_vars(Extract) /\ WF_vars(LoadAsset) /\ WF_vars(ShowViewer)

\* phase 3 and what follows it
Extracting == bootPc \in {"extract", "assets", "viewer"}

(* C25, first part: asset extraction begins only after archive bytes were   *)
(* obtained.                                                                *)
C25_BytesBeforeExtraction == Extracting => archiveBytes # "none"

(* C25, second part: if fetching ./data.a3z throws or returns a non-OK     *)
(* response, the file picker is shown and the bootstrap waits until the     *)
(* user selects or drops a file.                                            *)
C25_PickerOnFetchFailure ==
    fetchHow \in {"threw", "not ok"} /\ ~fileSelected =>
        bootPc = "picker" /\ pickerShown /\ archiveBytes = "none"

(* C25: asset extraction begins only after archive bytes were obtained; if  *)
(* fetching ./data.a3z throws or returns a non-OK response, the file picker *)
(* is shown and the bootstrap waits until the user selects or drops a file; *)
(* once a file has been selected, the bootstrap eventually either shows the *)
(* viewer or reports an error in the status text.                           *)
C25_BootstrapOrdering ==
    /\ [](Extracting => archiveBytes # "none")
    /\ [](fetchHow \in {"threw", "not ok"} /\ ~fileSelected =>
            bootPc = "picker" /\ pickerShown /\ archiveBytes = "none")
    /\ (fileSelected ~> (viewerShown \/ statusText = "Error"))

----------------------------------------------------------------------------
(* Logger (logger.ts 22-235): the global level, the cache of logger         *)
(* instances and the seven methods of an instance.                          *)

Levels == {LogLevel.DEBUG, LogLevel.INFO, LogLevel.WARN, LogLevel.ERROR, LogLevel.NONE}

\* the methods of a LoggerInstance
Methods == {"debug", "info", "warn", "error", "group", "time", "timeEnd"}

\* the level each method compares Logger._level with
Severity(method) ==
    CASE method \in {"debug", "group", "time", "timeEnd"} -> LogLevel.DEBUG
      [] method = "info" -> LogLevel.INFO
      [] method = "warn" -> LogLevel.WARN
      [] method = "error" -> LogLevel.ERROR

\* the console function a method calls when it is enabled
ConsoleFn(method) == IF method = "group" THEN "groupCollapsed" ELSE method

\* the module names loggers are asked for
ModuleNames == {"annotation-controller", "kiosk-viewer"}

\* the values of the ?log= parameter ("" is no parameter)
LogParams == {"", "debug", "all", "info", "warn", "error", "none", "off", "verbose"}

\* Logger.init(): the level from the URL parameter, or INFO in development
\* without a parameter, or the default WARN
InitLevel(logParam, isDev) ==
    CASE logParam \in {"debug", "all"} -> LogLevel.DEBUG
      [] logParam = "info" -> LogLevel.INFO
      [] logParam = "warn" -> LogLevel.WARN
      [] logParam = "error" -> LogLevel.ERROR
      [] logParam \in {"none", "off"} -> LogLevel.NONE
      [] logParam = "" -> IF isDev THEN LogLevel.INFO ELSE LogLevel.WARN
      [] OTHER -> LogLevel.WARN

\* what the logger leaves alone
notLog == <<engineVars, csVars, annVars, fetchVars, bootVars, bgVars>>

\* Logger.isEnabled(level)
isEnabled(l) == level <= l

LevelAtCreation(name) == loggers[name]

\* the level a method of the logger compares with: Logger._level, read when
\* the method runs
LevelRead(name) == level

\* Logger.setLevel(level)
SetLevel ==
    /\ \E l \in Levels : level' = l /\ logLast' = [op |-> "setLevel", level |-> l]
    /\ consoleCall' = Silent
    /\ UNCHANGED <<showTimestamps, loggers>>
    /\ UNCHANGED notLog

\* Logger.getLogger(moduleName): the cached instance, or a new one
GetLogger ==
    /\ \E name \in ModuleNames :
         /\ loggers' = IF name \in DOMAIN loggers THEN loggers
                       ELSE [m \in DOMAIN loggers \cup {name} |->
                               IF m = name THEN level ELSE loggers[m]]
         /\ logLast' = [op |-> "getLogger", name |-> name]
    /\ consoleCall' = Silent
    /\ UNCHANGED <<level, showTimestamps>>
    /\ UNCHANGED notLog

\* a method of a logger instance is called
LogCall ==
    /\ \E name \in DOMAIN loggers, method \in Methods :
         /\ consoleCall' = IF LevelRead(name) <= Severity(method)
                           THEN [fn |-> ConsoleFn(method), prefix |-> name]
                           ELSE Silent
         /\ logLast' = [op |-> "call", name |-> name, method |-> method]
    /\ UNCHANGED <<level, showTimestamps, loggers>>
    /\ UNCHANGED notLog

\* after the module was loaded: Logger.init() has run
InitLog ==
    /\ EngineIdle /\ CsIdle /\ AnnIdle /\ FetchIdle /\ BootIdle /\ BgIdle
    /\ \E logParam \in LogParams, isDev \in BOOLEAN :
         /\ level = InitLevel(logParam, isDev)
         /\ showTimestamps = (logParam \in {"debug", "all"})
    /\ loggers = <<>>
    /\ consoleCall = IF level < LogLevel.NONE
                     THEN [fn |-> "info", prefix |-> "Logger"] ELSE Silent
    /\ logLast = [op |-> "init"]

NextLog ==
    \/ SetLevel
    \/ GetLogger
    \/ LogCall

SpecLog == InitLog /\ [][NextLog]_vars

\* a method of a logger was just called
Called == logLast.op = "call"

(* C26: a logger method writes to the console exactly when the current      *)
(* global level is at most the method's severity (debug, group, time,       *)
(* timeEnd: DEBUG; info: INFO; warn: WARN; error: ERROR): at level NONE     *)
(* nothing is written and error is written at every other level; and the    *)
(* level that counts is the one set last, also for a logger that was        *)
(* created and cached before Logger.setLevel was called.                    *)
C26_LevelGatesConsole ==
    Called =>
      /\ consoleCall # Silent <=>
           \/ logLast.method \in {"debug", "group", "time", "timeEnd"} /\ level <= 0
           \/ logLast.method = "info" /\ level <= 1
           \/ logLast.method = "warn" /\ level <= 2
           \/ logLast.method = "error" /\ level <= 3
      /\ consoleCall # Silent => consoleCall.prefix = logLast.name
      /\ level = 4 => consoleCall = Silent
      /\ logLast.method = "error" /\ level # 4 => consoleCall.fn = "error"

\* a logger created at level WARN writes a debug message after
\* setLevel(DEBUG)
C26_Witness ==
    /\ Called /\ logLast.method = "debug"
    /\ LevelAtCreation(logLast.name) = LogLevel.WARN
    /\ level = LogLevel.DEBUG
    /\ consoleCall = [fn |-> "debug", prefix |-> logLast.name]

----------------------------------------------------------------------------
(* SceneManager (part_004): the background of the scene.  A texture is the  *)
(* number of its load (1, 2, ...); the callbacks of the loaders are the     *)
(* actions, a load that fails changes nothing.                              *)

\* the colours a user sets
BackgroundColors == {"#000000", "#ffffff"}

\* what the background methods leave alone
notBg == <<engineVars, csVars, annVars, fetchVars, bootVars, logVars>>

\* this.savedBackgroundColor || new Color(COLORS.SCENE_BACKGROUND)
SavedOrDefault == IF savedBackgroundColor # NoColor
                  THEN ColorBg(savedBackgroundColor) ELSE ColorBg(SCENE_BACKGROUND)

\* the body of clearBackgroundImage(): the texture is disposed and the field
\* nulled; scene.background is not written
DisposedByClear == IF backgroundImageTexture # NoTexture
                   THEN disposed \cup {backgroundImageTexture} ELSE disposed

\* setBackgroundColor(hexColor)
SetBackgroundColor ==
    /\ \E c \in BackgroundColors :
         /\ background' = ColorBg(c)
         /\ savedBackgroundColor' = c
    /\ envAsBackground' = FALSE
    /\ disposed' = DisposedByClear
    /\ backgroundImageTexture' = NoTexture
    /\ bgLast' = "setBackgroundColor"
    /\ UNCHANGED <<currentEnvTexture, textures>>
    /\ UNCHANGED notBg

\* the load callback of loadBackgroundImage(url)
LoadBackgroundImage ==
    /\ textures < MaxTextures
    /\ textures' = textures + 1
    /\ disposed' = DisposedByClear
    /\ backgroundImageTexture' = textures + 1
    /\ background' = TextureBg(textures + 1)
    /\ envAsBackground' = FALSE
    /\ bgLast' = "loadBackgroundImage"
    /\ UNCHANGED <<savedBackgroundColor, currentEnvTexture>>
    /\ UNCHANGED notBg

\* clearBackgroundImage()
ClearBackgroundImage ==
    /\ disposed' = DisposedByClear
    /\ backgroundImageTexture' = NoTexture
    /\ bgLast' = "clearBackgroundImage"
    /\ UNCHANGED <<background, savedBackgroundColor, envAsBackground,
                   currentEnvTexture, textures>>
    /\ UNCHANGED notBg

\* the load callback of loadHDREnvironment(url)
LoadHDREnvironment ==
    /\ textures < MaxTextures
    /\ textures' = textures + 1
    /\ disposed' = IF currentEnvTexture # NoTexture
                   THEN disposed \cup {currentEnvTexture} ELSE disposed
    /\ currentEnvTexture' = textures + 1
    /\ background' = IF envAsBackground THEN TextureBg(textures + 1) ELSE background
    /\ bgLast' = "loadHDREnvironment"
    /\ UNCHANGED <<savedBackgroundColor, envAsBackground, backgroundImageTexture>>
    /\ UNCHANGED notBg

\* clearEnvironment()
ClearEnvironment ==
    /\ background' = IF envAsBackground THEN SavedOrDefault ELSE background
    /\ envAsBackground' = FALSE
    /\ disposed' = IF currentEnvTexture # NoTexture
                   THEN disposed \cup {currentEnvTexture} ELSE disposed
    /\ currentEnvTexture' = NoTexture
    /\ bgLast' = "clearEnvironment"
    /\ UNCHANGED <<savedBackgroundColor, backgroundImageTexture, textures>>
    /\ UNCHANGED notBg

\* setEnvironmentAsBackground(show)
SetEnvironmentAsBackground ==
    /\ \E show \in BOOLEAN :
         /\ envAsBackground' = show
         /\ IF show /\ currentEnvTexture # NoTexture
            THEN /\ savedBackgroundColor' = IF background.kind = "color"
                                            THEN background.color ELSE savedBackgroundColor
                 /\ background' = TextureBg(currentEnvTexture)
                 /\ disposed' = DisposedByClear
                 /\ backgroundImageTexture' = NoTexture
            ELSE IF ~show
            THEN /\ background' = IF backgroundImageTexture # NoTexture
                                  THEN TextureBg(backgroundImageTexture) ELSE SavedOrDefault
                 /\ UNCHANGED <<savedBackgroundColor, disposed, backgroundImageTexture>>
            ELSE UNCHANGED <<background, savedBackgroundColor, disposed,
                             backgroundImageTexture>>
    /\ bgLast' = "setEnvironmentAsBackground"
    /\ UNCHANGED <<currentEnvTexture, textures>>
    /\ UNCHANGED notBg

\* after the constructor and setupScene()
InitBg ==
    /\ EngineIdle /\ CsIdle /\ AnnIdle /\ FetchIdle /\ BootIdle /\ LogIdle
    /\ BgIdle

NextBg ==
    \/ SetBackgroundColor
    \/ LoadBackgroundImage
    \/ ClearBackgroundImage
    \/ LoadHDREnvironment
    \/ ClearEnvironment
    \/ SetEnvironmentAsBackground

SpecBg == InitBg /\ [][NextBg]_vars

(* C27: after clearBackgroundImage returns the scene shows a solid colour:  *)
(* scene.background is not the disposed image texture, whatever sequence of *)
(* setBackgroundColor, loadBackgroundImage and setEnvironmentAsBackground   *)
(* calls came before.                                                       *)
C27_ClearRevertsToColor ==
    bgLast = "clearBackgroundImage" =>
        ~(background.kind = "texture" /\ background.texture \in disposed)

----------------------------------------------------------------------------
(* validateSIP: the counts and the score of the result *)

(* C28: validateSIP counts every checked field exactly once: passCount plus *)
(* the number of errors plus the number of warnings is totalChecked, which  *)
(* is the number of fields of the profile; no field has more than one       *)
(* finding; score is 100 * passCount / totalChecked rounded to the nearest  *)
(* integer, a half rounded up (100 when no field is checked), so that       *)
(* 0 <= score <= 100.                                                       *)
C28_EveryFieldCountedOnce ==
    /\ Score(0, 0) = 100
    /\ SipReturned =>
         LET r == sipResult
         IN /\ r.totalChecked = Cardinality(ProfileFields)
            /\ r.passCount + Len(r.errors) + Len(r.warnings) = r.totalChecked
            /\ \A f \in AllFields :
                 Cardinality(FindingsOn(f, r.errors))
                   + Cardinality(FindingsOn(f, r.warnings))
                   <= (IF f \in ProfileFields THEN 1 ELSE 0)
            /\ r.totalChecked > 0
            /\ 2 * r.score * r.totalChecked - r.totalChecked <= 200 * r.passCount
            /\ 200 * r.passCount < 2 * r.score * r.totalChecked + r.totalChecked
            /\ r.score >= 0 /\ r.score <= 100

\* the partial fill of the test: 3 of the 8 fields of the basic profile
\* pass, 37.5 % is reported as 38; errors and warnings both occur
C28_Witness ==
    /\ SipReturned /\ sipProfile = "basic"
    /\ sipResult.totalChecked = 8 /\ sipResult.passCount = 3
    /\ sipResult.score = 38
    /\ Len(sipResult.errors) > 0 /\ Len(sipResult.warnings) > 0

====
